---- MODULE Spec2Model ----
(***************************************************************************)
(* Model of the xtrans-s peer-to-peer transfer core:                       *)
(*   - HybridConnectionManager (src/src/lib/hybrid-connection-manager.ts)  *)
(*   - P2PConnection file send / receive (src/unnamed/part_001, webrtc.ts) *)
(* Execution is single-threaded and event driven: every action below is    *)
(* one macrotask (a public call up to its first suspension, a timer, or a  *)
(* browser event handler) together with the microtasks it schedules.       *)
(***************************************************************************)
EXTENDS Integers, Sequences, FiniteSets, TLC

\* ------------------------------------------------------------------ bounds
\* P2PConnection / WebSocketConnection objects alive at a time
MaxTransports == 1

\* --------------------------------------------------------------- constants
WEBRTC == "webrtc"
WEBSOCKET == "websocket"
HYBRID == "hybrid"
ConnectionType == {WEBRTC, WEBSOCKET, HYBRID}

ProvisionalIds == {"manual-1"}
RealIds == {"real-42"}
DeviceIds == ProvisionalIds \cup RealIds
\* deviceId values a Handshake may carry: a peer's own (real) id, or ""
\* when data.deviceId is missing
HandshakeIds == RealIds \cup {""}

None == 0
NoState == [type |-> "none", status |-> "none", deviceId |-> ""]
NoHandler == ""

VARIABLES
  strategy,          \* ConnectionStrategy given to the constructor
  transports,        \* the P2PConnection / WebSocketConnection objects alive: an object
                     \* that is closed, has no timer pending and is not in the registry
                     \* is garbage and its slot is free again; a connectToDevice call in
                     \* flight is held by the transport whose attempt it awaits
  connections,       \* HybridConnectionManager.connections
  connectionStates,  \* HybridConnectionManager.connectionStates
  messageHandlers,   \* HybridConnectionManager.messageHandlers
  localDeviceInfo,   \* HybridConnectionManager.localDeviceInfo is set (not null)
  eventListeners,    \* HybridConnectionManager.eventListeners, in insertion order
  invoked,           \* the listener calls of the last step, in order
  seen,              \* what the listeners called with a handshakeReceived event in the
                     \* last step found in the manager's maps during the call
  emitted,           \* what the last step published: the ConnectionEvents handed to
                     \* emitEvent and the messages handed to a device's handler, in order
  returned           \* the connectToDevice calls that returned in the last step

mvars == <<strategy, transports, connections, connectionStates, messageHandlers,
           localDeviceInfo, eventListeners, invoked, seen, emitted, returned>>

\* ------------------------------------------------------------ strategies
\* The constructor's strategies exercised: the default (and the application's)
\* webrtc-then-websocket, and one with both kinds as fallbacks, websocket first,
\* behind a preferred kind tryConnection does not know.
Strategies ==
  { [preferredType |-> WEBRTC, fallbackTypes |-> <<WEBSOCKET>>],
    [preferredType |-> HYBRID, fallbackTypes |-> <<WEBSOCKET, WEBRTC>>] }

\* currentDeviceId.startsWith('manual-') (line 385)
startsWithManual(d) == d \in ProvisionalIds

\* ------------------------------------------------------------- transports
\* the connectToDevice call awaiting an attempt: its deviceInfo (does the
\* WebSocket constructor refuse the url built from it), the index of the kind
\* being tried, the kinds tried so far, the transports it has registered
NoCall == [badUrl |-> FALSE, idx |-> 0, tried |-> <<>>, registered |-> {}]

NewTransport(kind, d, origin, cr) ==
  [kind |-> kind, remote |-> d, origin |-> origin, call |-> cr,
   dc |-> "connecting",
   pc |-> IF kind = WEBRTC THEN "new" ELSE "none",
   isConnected |-> FALSE, closed |-> FALSE, opened |-> FALSE,
   timerArmed |-> (origin = "connect"),
   resolved |-> IF origin = "connect" THEN "pending" ELSE "none",
   handlers |-> FALSE, currentDeviceId |-> d,
   hsTimers |-> 0, handshakes |-> 0]

\* a slot holding no object
Free == [NewTransport("free", "", "none", NoCall) EXCEPT !.dc = "closed", !.closed = TRUE]

\* one slot more than MaxTransports: the object a manual connection replaces in
\* the registry lives on beside its successor
Slots == 1..(MaxTransports + 1)

\* an object nothing can reach any more: closed, no timer pending, not registered
isGarbage(T, C, t) ==
  /\ T[t].closed
  /\ ~T[t].timerArmed
  /\ T[t].hsTimers = 0
  /\ \A d \in DeviceIds : C[d] # t

collect(T, C) == [t \in Slots |-> IF isGarbage(T, C, t) THEN Free ELSE T[t]]

hasRoom(T) == Cardinality({t \in Slots : T[t] # Free}) < MaxTransports

\* the slot a new object takes
newSlot(T) == CHOOSE t \in Slots : T[t] = Free /\ \A u \in Slots : T[u] = Free => t <= u

\* P2PConnection.close / WebSocketConnection.close
close(tr) ==
  [tr EXCEPT !.closed = TRUE, !.isConnected = FALSE, !.dc = "closed",
             !.pc = IF tr.kind = WEBRTC THEN "closed" ELSE "none"]

\* the listeners an application registers: one that returns and one that throws
Listeners == {"listens", "throws"}
throwsOn(l) == l = "throws"

\* a forEach without the try/catch: the first exception ends the loop and
\* leaves emitEvent
notify_noCatch(L, e) ==
  LET bad == {i \in 1..Len(L) : throwsOn(L[i])}
      n == IF bad = {} THEN Len(L) ELSE CHOOSE i \in bad : \A j \in bad : i <= j
  IN [calls |-> [i \in 1..n |-> [listener |-> L[i], event |-> e]], threw |-> bad # {}]

\* emitEvent (lines 578-586): every listener is called inside its own
\* try/catch, so the loop reaches them all and emitEvent returns normally
notify(L, e) ==
  [calls |-> [i \in 1..Len(L) |-> [listener |-> L[i], event |-> e]], threw |-> FALSE]

\* does emitEvent(e) leave by an exception
emitThrows(e) == notify(eventListeners, e).threw

\* the events handed to emitEvent in one step, in order
emitEvent(evs, e) == Append(evs, e)

\* the listener calls emitEvent makes for the events of one step
RECURSIVE notifyAll(_, _)
notifyAll(L, evs) ==
  IF evs = <<>> THEN <<>>
  ELSE (IF Head(evs).type = "handlerCall" THEN <<>> ELSE notify(L, Head(evs)).calls)
         \o notifyAll(L, Tail(evs))

\* a listener called with handshakeReceived (line 400) runs after the
\* transport and the ConnectionState were re-keyed (lines 387-396) and before
\* the message handler is (lines 407-411): it finds the maps of the step's
\* end, except messageHandlers, which is still as before the step.
\* `provisional` holds the id the step took out of the registry.
handshakeView(call) ==
  [listener |-> call.listener, deviceId |-> call.event.deviceId,
   provisional |-> {p \in DeviceIds : connections[p] # None /\ connections'[p] = None},
   connections |-> connections', connectionStates |-> connectionStates',
   messageHandlers |-> messageHandlers]

\* what a step leaves in eventListeners, invoked and seen
Notify ==
  /\ eventListeners' = eventListeners
  /\ invoked' = notifyAll(eventListeners, emitted')
  /\ LET calls == SelectSeq(invoked', LAMBDA c : c.event.type = "handshakeReceived")
     IN seen' = [i \in 1..Len(calls) |-> handshakeView(calls[i])]

StateEvent(d, st) ==
  [type |-> "connectionStateChanged", deviceId |-> d, status |-> st.status,
   kind |-> st.type]

MsgEvent(type, d, mt) ==
  [type |-> type, deviceId |-> d, status |-> mt, kind |-> "none"]

Return(d, result, cr) ==
  <<[op |-> "connectToDevice", deviceId |-> d, result |-> result, call |-> cr]>>

\* ------------------------------------------------------ connectToDevice
\* connectToDevice lines 198-204: an active connection is reused
hasActiveConnection(d) ==
  /\ connections[d] # None
  /\ connectionStates[d] # NoState
  /\ connectionStates[d].status = "connected"

\* tryConnection / tryWebSocketConnection: does an attempt of this kind create a
\* transport and suspend?  HYBRID falls to `default: return false`; a WebSocket
\* whose url the constructor refuses is caught and resolves false at once.
attemptSuspends(kind, badUrl) ==
  \/ kind = WEBRTC
  \/ kind = WEBSOCKET /\ ~badUrl

\* index of the first kind at or after i whose attempt suspends (Len+1: none)
RECURSIVE FirstAwaiting(_, _, _)
FirstAwaiting(kinds, i, badUrl) ==
  IF i > Len(kinds) THEN i
  ELSE IF attemptSuspends(kinds[i], badUrl) THEN i
  ELSE FirstAwaiting(kinds, i + 1, badUrl)

\* connectToDevice lines 231-237: every kind failed
connectFailed(d, cr, T, CS, EV) ==
  /\ transports' = collect(T, connections)
  /\ IF CS[d] = NoState
     THEN \* `state.status = ...` on undefined: the call rejects
          /\ returned' = Return(d, "throw", cr)
          /\ connectionStates' = CS
          /\ emitted' = EV
     ELSE LET st == [CS[d] EXCEPT !.status = "failed"] IN
          /\ connectionStates' = [CS EXCEPT ![d] = st]
          /\ emitted' = emitEvent(EV, StateEvent(d, st))
          /\ returned' = Return(d, IF emitThrows(StateEvent(d, st)) THEN "throw" ELSE "false", cr)

\* the order in which the kinds after the preferred one are tried (line 219)
fallbackOrder(fallbackTypes) == fallbackTypes

\* the kinds connectToDevice tries, in order: preferred, then each fallback
KindsToTry(s) == <<s.preferredType>> \o fallbackOrder(s.fallbackTypes)

\* connectToDevice lines 216-223 with tryConnection: start the attempt of the
\* next kind from index i on, or finish with failure when none is left
tryConnection(d, cr, i, T, CS, EV) ==
  LET kinds == KindsToTry(strategy)
      j == FirstAwaiting(kinds, i, cr.badUrl)
      last == IF j > Len(kinds) THEN Len(kinds) ELSE j
      cr1 == [cr EXCEPT !.idx = j, !.tried = @ \o SubSeq(kinds, i, last)]
  IN IF j > Len(kinds)
     THEN connectFailed(d, cr1, T, CS, EV)
     ELSE LET T1 == collect(T, connections) IN
          /\ hasRoom(T1)
          /\ transports' = [T1 EXCEPT ![newSlot(T1)] = NewTransport(kinds[j], d, "connect", cr1)]
          /\ connectionStates' = CS
          /\ emitted' = EV
          /\ returned' = <<>>

\* a reuse that publishes the state of the connection it found
reuseConnection_republishes(d) ==
  /\ returned' = Return(d, "true", NoCall)
  /\ emitted' = emitEvent(<<>>, StateEvent(d, connectionStates[d]))
  /\ UNCHANGED <<transports, connectionStates>>

\* connectToDevice lines 201-203: `return true` with the existing connection
reuseConnection(d) ==
  /\ returned' = Return(d, "true", NoCall)
  /\ emitted' = <<>>
  /\ UNCHANGED <<transports, connectionStates>>

connectToDevice(d, badUrl) ==
  /\ IF hasActiveConnection(d)
     THEN reuseConnection(d)
     ELSE LET st == [type |-> strategy.preferredType, status |-> "connecting", deviceId |-> d]
          IN IF emitThrows(StateEvent(d, st))
             THEN \* an exception leaving emitEvent (line 213) rejects the call
                  /\ connectionStates' = [connectionStates EXCEPT ![d] = st]
                  /\ emitted' = emitEvent(<<>>, StateEvent(d, st))
                  /\ returned' = Return(d, "throw", NoCall)
                  /\ UNCHANGED transports
             ELSE tryConnection(d, [NoCall EXCEPT !.badUrl = badUrl], 1, transports,
                                [connectionStates EXCEPT ![d] = st],
                                emitEvent(<<>>, StateEvent(d, st)))
  /\ UNCHANGED <<strategy, localDeviceInfo, connections, messageHandlers>>

\* resolve(false) of an attempt's promise: a no-op once resolved, otherwise
\* connectToDevice resumes with the next kind
resolveFalse(t, T) ==
  IF T[t].resolved = "pending"
  THEN tryConnection(T[t].remote, T[t].call, T[t].call.idx + 1,
                     [T EXCEPT ![t] = [@ EXCEPT !.resolved = "false", !.call = NoCall]],
                     connectionStates, <<>>)
  ELSE /\ transports' = collect(T, connections)
       /\ emitted' = <<>>
       /\ returned' = <<>>
       /\ UNCHANGED connectionStates

\* the setTimeout callback of tryWebRTCConnection / tryWebSocketConnection
Timeout(t) ==
  /\ t \in Slots
  /\ transports[t].timerArmed
  /\ resolveFalse(t, [transports EXCEPT ![t] = [close(@) EXCEPT !.timerArmed = FALSE]])
  /\ UNCHANGED <<strategy, localDeviceInfo, connections, messageHandlers>>

\* -------------------------------------------------- setupConnectionHandlers
\* setupConnectionHandlers: subscribes the dispatch closure on the connection,
\* with its closure variable currentDeviceId = deviceId
setupConnectionHandlers(tr, d) ==
  [tr EXCEPT !.handlers = TRUE, !.currentDeviceId = d]

\* tryWebRTCConnection, onStatus('connected') (lines 270-280) followed by the
\* continuation of connectToDevice (lines 225-230)
webrtcConnected(t, T) ==
  LET tr == T[t]
      d == tr.remote
      cr == [tr.call EXCEPT !.registered = @ \cup {t}]
      tr1 == [setupConnectionHandlers(tr, d) EXCEPT !.timerArmed = FALSE]
      C1 == [connections EXCEPT ![d] = t]
  IN /\ connections' = C1
     /\ IF connectionStates[d] = NoState
        THEN \* `state.type = ...` on undefined throws inside the callback:
             \* resolve is never reached
             /\ transports' = collect([T EXCEPT ![t] = [tr1 EXCEPT !.call = cr]], C1)
             /\ emitted' = <<>>
             /\ returned' = <<>>
             /\ UNCHANGED connectionStates
        ELSE LET st == [connectionStates[d] EXCEPT !.type = WEBRTC, !.status = "connected"]
             IN /\ transports' = collect([T EXCEPT ![t] = [tr1 EXCEPT !.resolved = "true",
                                                                         !.call = NoCall]], C1)
                /\ connectionStates' = [connectionStates EXCEPT ![d] = st]
                /\ emitted' = emitEvent(<<>>, StateEvent(d, st))
                /\ returned' = Return(d, IF emitThrows(StateEvent(d, st)) THEN "throw" ELSE "true",
                                      cr)

\* P2PConnection.sendCustomMessage (part_001 lines 878-891) and
\* WebSocketConnection.send (lines 631-637): the message goes out only on an
\* open channel
channelOpen(tr) == tr.dc = "open"

\* sendHandshake (lines 73-87) through sendMessage (lines 480-505): a Handshake
\* goes out on the transport registered under d, if localDeviceInfo is set, a
\* transport is registered and its channel takes it; the transports afterwards
sendHandshake(T, C, d) ==
  IF localDeviceInfo /\ C[d] # None /\ channelOpen(T[C[d]])
  THEN [T EXCEPT ![C[d]].handshakes = @ + 1]
  ELSE T

\* sendHandshakeWithCheck (lines 111-117, 158-162)
sendHandshakeWithCheck(T, C, d) ==
  IF C[d] # None THEN sendHandshake(T, C, d) ELSE T

\* createManualConnection / acceptManualConnection, onStatus('connected')
\* (lines 103-130 and 154-175): the handlers, the first Handshake, the two
\* re-send timers, then the Connected state
manualConnected(t, T) ==
  LET tr == T[t]
      d == tr.remote
      st == [type |-> WEBRTC, status |-> "connected", deviceId |-> d]
      T1 == [T EXCEPT ![t] = [setupConnectionHandlers(tr, d) EXCEPT !.hsTimers = 2]]
  IN /\ transports' = sendHandshakeWithCheck(T1, connections, d)
     /\ connectionStates' = [connectionStates EXCEPT ![d] = st]
     /\ emitted' = emitEvent(<<>>, StateEvent(d, st))
     /\ returned' = <<>>
     /\ UNCHANGED connections

\* setTimeout(sendHandshakeWithCheck, 1000 / 3000) of the transport's onStatus
\* callback fires (lines 120-121, 165-166)
HandshakeTimer(t) ==
  /\ t \in Slots
  /\ transports[t].hsTimers > 0
  /\ transports' = collect(sendHandshakeWithCheck([transports EXCEPT ![t].hsTimers = @ - 1],
                                                  connections, transports[t].remote),
                           connections)
  /\ emitted' = <<>>
  /\ returned' = <<>>
  /\ UNCHANGED <<strategy, localDeviceInfo, connections, connectionStates, messageHandlers>>

\* setLocalDeviceInfo (lines 50-53)
setLocalDeviceInfo ==
  /\ localDeviceInfo' = TRUE
  /\ emitted' = <<>>
  /\ returned' = <<>>
  /\ UNCHANGED <<strategy, transports, connections, connectionStates, messageHandlers>>

\* tryWebRTCConnection, onStatus('failed') (lines 281-285); the manual
\* callbacks leave 'failed' empty (lines 131-133, 176-178)
onStatusFailed(t, T) ==
  IF T[t].origin = "connect"
  THEN resolveFalse(t, [T EXCEPT ![t] = [close(@) EXCEPT !.timerArmed = FALSE]])
  ELSE /\ transports' = collect(T, connections)
       /\ emitted' = <<>>
       /\ returned' = <<>>
       /\ UNCHANGED connectionStates

\* the status callback registered with P2PConnection.onStatus
onStatus(t, status, T) ==
  CASE status = "connected" /\ T[t].origin = "connect" -> webrtcConnected(t, T)
    [] status = "connected" /\ T[t].origin = "manual" -> manualConnected(t, T)
    [] status = "failed" -> onStatusFailed(t, T) /\ UNCHANGED connections
    [] OTHER -> /\ transports' = collect(T, connections)
                /\ emitted' = <<>>
                /\ returned' = <<>>
                /\ UNCHANGED <<connectionStates, connections>>

\* --------------------------------------------- P2PConnection status events
\* setupPeerConnection, onconnectionstatechange (lines 378-392).  The browser's
\* 'disconnected' and 'failed' share one branch and are one value here; 'new'
\* stands for every state before 'connected' ('connecting' only reports a
\* status the manager's callbacks ignore).
onconnectionstatechange_reportsConnected(t, s) ==
  LET T == [transports EXCEPT ![t].pc = s] IN
  CASE s = "connected" -> onStatus(t, "connected", [T EXCEPT ![t].isConnected = TRUE])
    [] s = "failed" -> onStatus(t, "failed", [T EXCEPT ![t].isConnected = FALSE])

onconnectionstatechange(t, s) ==
  LET T == [transports EXCEPT ![t].pc = s] IN
  CASE s = "connected" -> onStatus(t, "none", T)
    [] s = "failed" -> onStatus(t, "failed", [T EXCEPT ![t].isConnected = FALSE])

\* the browser's peer connection changes state
PcState(t, s) ==
  /\ t \in Slots
  /\ transports[t].kind = WEBRTC
  /\ ~transports[t].closed
  /\ \/ s = "connected" /\ transports[t].pc = "new"
     \/ s = "failed" /\ transports[t].pc \in {"new", "connected"}
  /\ onconnectionstatechange(t, s)
  /\ UNCHANGED <<strategy, localDeviceInfo, messageHandlers>>

\* setupDataChannel, dataChannel.onopen (lines 413-416)
onopen(t) ==
  onStatus(t, "connected",
           [transports EXCEPT ![t] = [@ EXCEPT !.dc = "open", !.opened = TRUE,
                                               !.isConnected = TRUE]])

DcOpen(t) ==
  /\ t \in Slots
  /\ transports[t].kind = WEBRTC
  /\ ~transports[t].closed
  /\ transports[t].dc = "connecting"
  /\ transports[t].pc \in {"new", "connected"}
  /\ onopen(t)
  /\ UNCHANGED <<strategy, localDeviceInfo, messageHandlers>>

\* setupDataChannel, dataChannel.onerror / onclose (lines 422-430)
DcClose(t) ==
  /\ t \in Slots
  /\ transports[t].kind = WEBRTC
  /\ ~transports[t].closed
  /\ transports[t].dc \in {"connecting", "open"}
  /\ onStatus(t, "failed",
              [transports EXCEPT ![t] = [@ EXCEPT !.dc = "closed", !.isConnected = FALSE]])
  /\ UNCHANGED <<strategy, localDeviceInfo, messageHandlers>>

\* tryWebRTCConnection lines 288-292: createOffer rejects
InitiateFail(t) ==
  /\ t \in Slots
  /\ transports[t].kind = WEBRTC
  /\ transports[t].origin = "connect"
  /\ transports[t].pc = "new"
  /\ transports[t].dc = "connecting"
  /\ ~transports[t].closed
  /\ resolveFalse(t, [transports EXCEPT ![t] = [close(@) EXCEPT !.timerArmed = FALSE]])
  /\ UNCHANGED <<strategy, localDeviceInfo, connections, messageHandlers>>

\* ------------------------------------------------ WebSocketConnection events
\* tryWebSocketConnection, wsConnection.onOpen (lines 307-318):
\* this.setupWebSocketHandlers is not a method of the class, so the call at
\* line 310 throws a TypeError after the registry write and before resolve
WsOpen(t) ==
  /\ t \in Slots
  /\ transports[t].kind = WEBSOCKET
  /\ ~transports[t].closed
  /\ transports[t].dc = "connecting"
  /\ connections' = [connections EXCEPT ![transports[t].remote] = t]
  /\ transports' = collect([transports EXCEPT ![t] =
                              [@ EXCEPT !.dc = "open", !.opened = TRUE, !.timerArmed = FALSE,
                                        !.call = [@ EXCEPT !.registered = @ \cup {t}]]],
                           [connections EXCEPT ![transports[t].remote] = t])
  /\ emitted' = <<>>
  /\ returned' = <<>>
  /\ UNCHANGED <<strategy, localDeviceInfo, connectionStates, messageHandlers>>

\* tryWebSocketConnection, wsConnection.onError (lines 320-324)
WsError(t) ==
  /\ t \in Slots
  /\ transports[t].kind = WEBSOCKET
  /\ ~transports[t].closed
  /\ transports[t].dc \in {"connecting", "open"}
  /\ resolveFalse(t, [transports EXCEPT ![t] = [close(@) EXCEPT !.timerArmed = FALSE]])
  /\ UNCHANGED <<strategy, localDeviceInfo, connections, messageHandlers>>

\* --------------------------------------------------------- manual connections
\* createManualConnection lines 90-98 / acceptManualConnection lines 141-149:
\* a new P2PConnection is stored under targetDeviceId, replacing any other
createManualConnection(d) ==
  /\ \E t \in Slots : transports[t] = Free
  /\ LET t == newSlot(transports)
         C1 == [connections EXCEPT ![d] = t]
     IN /\ connections' = C1
        /\ transports' = collect([transports EXCEPT ![t] = NewTransport(WEBRTC, d, "manual", NoCall)],
                                 C1)
  /\ emitted' = <<>>
  /\ returned' = <<>>
  /\ UNCHANGED <<strategy, localDeviceInfo, connectionStates, messageHandlers>>

\* ------------------------------------------------------------ message dispatch
\* raw `type` fields of the inbound messages exercised
RawTypes == {"handshake", "text"}

\* the types of P2PMessage (line 462) and the tags of the chunk protocol (line 472)
MessageKinds == {"text", "file", "control", "handshake"}
ProtocolTags == {"metadata", "chunk", "end", "ack", "file_accept", "file_reject", "file_cancel"}

\* no `type` property
NoType == ""

\* what getMessageType may be handed: a string (that JSON.parse takes or
\* refuses, and that may parse to null), an object, or binary data; `type` is
\* the type property of the object or of the parsed string
Payload(form, parses, isNull, type) ==
  [form |-> form, parses |-> parses, isNull |-> isNull, type |-> type]

\* the parsed message objects P2PConnection delivers to its listeners
ObjectMessage(raw) == Payload("object", TRUE, FALSE, raw)

\* getMessageType (lines 458-478)
getMessageType(message) ==
  IF message.form = "string"
  THEN IF ~message.parses \/ message.isNull
       THEN "text"      \* JSON.parse, or parsed.type on null, throws: the catch
       ELSE IF message.type \in MessageKinds THEN message.type
       ELSE "file"      \* a string is not an object: line 477
  ELSE IF message.form = "object" /\ message.type # NoType
  THEN IF message.type \in ProtocolTags THEN "file" ELSE message.type
  ELSE "file"

\* lines 387-388: the transport moves to the real id
rekeyConnection(C, t, cur, real) ==
  [[C EXCEPT ![real] = t] EXCEPT ![cur] = None]

\* lines 391-396: the ConnectionState, if any, moves and takes the real id
rekeyState(S, cur, real) ==
  IF S[cur] # NoState
  THEN [[S EXCEPT ![real] = [S[cur] EXCEPT !.deviceId = real]] EXCEPT ![cur] = NoState]
  ELSE S

\* a re-key that copies the handler and forgets to delete the old entry
rekeyHandler_keepsOld(H, cur, real) ==
  IF H[cur] # NoHandler THEN [H EXCEPT ![real] = H[cur]] ELSE H

\* lines 407-411: the message handler, if any, moves
rekeyHandler(H, cur, real) ==
  IF H[cur] # NoHandler
  THEN [[H EXCEPT ![real] = H[cur]] EXCEPT ![cur] = NoHandler]
  ELSE H

\* identity remap, lines 385-416
remap(t, cur, real) ==
  LET ev == MsgEvent("handshakeReceived", real, "handshake") IN
  /\ connections' = rekeyConnection(connections, t, cur, real)
  /\ connectionStates' = rekeyState(connectionStates, cur, real)
  /\ emitted' = emitEvent(<<>>, ev)
  /\ IF emitThrows(ev)
     THEN \* an exception leaving emitEvent (line 400) skips lines 406-414
          /\ UNCHANGED messageHandlers
          /\ transports' = collect(transports, rekeyConnection(connections, t, cur, real))
     ELSE /\ messageHandlers' = rekeyHandler(messageHandlers, cur, real)
          /\ transports' = collect([transports EXCEPT ![t].currentDeviceId = real],
                                   rekeyConnection(connections, t, cur, real))

\* lines 429-454: the device's handler if there is one, else a messageReceived event
dispatch(t, cur, msgType, EV) ==
  IF messageHandlers[cur] # NoHandler
  THEN emitted' = Append(EV, [type |-> "handlerCall", deviceId |-> cur, status |-> msgType,
                              kind |-> messageHandlers[cur]])
  ELSE emitted' = emitEvent(EV, MsgEvent("messageReceived", cur, msgType))

\* the closure subscribed by setupConnectionHandlers (lines 370-455) receives a
\* message of raw type `raw`; hid is data.deviceId of a handshake ("" : absent)
onMessage(t, raw, hid) ==
  LET cur == transports[t].currentDeviceId
      msgType == getMessageType(ObjectMessage(raw))
  IN IF msgType = "handshake" /\ hid # ""
     THEN IF startsWithManual(cur)
          THEN remap(t, cur, hid)
          ELSE /\ IF emitThrows(MsgEvent("handshakeReceived", hid, "handshake"))
                  THEN emitted' = emitEvent(<<>>, MsgEvent("handshakeReceived", hid, "handshake"))
                  ELSE dispatch(t, cur, msgType,
                                emitEvent(<<>>, MsgEvent("handshakeReceived", hid, "handshake")))
               /\ UNCHANGED <<connections, connectionStates, messageHandlers, transports>>
     ELSE /\ dispatch(t, cur, msgType, <<>>)
          /\ UNCHANGED <<connections, connectionStates, messageHandlers, transports>>

\* dataChannel.onmessage -> handleMessage -> listeners
Receive(t, raw, hid) ==
  /\ t \in Slots
  /\ transports[t].kind = WEBRTC
  /\ transports[t].dc = "open"
  /\ transports[t].handlers
  /\ raw = "handshake" \/ hid = ""
  /\ onMessage(t, raw, hid)
  /\ returned' = <<>>
  /\ UNCHANGED <<strategy, localDeviceInfo>>

\* HybridConnectionManager.onMessage (lines 566-568)
registerHandler(d) ==
  /\ messageHandlers' = [messageHandlers EXCEPT ![d] = d]
  /\ emitted' = <<>>
  /\ returned' = <<>>
  /\ UNCHANGED <<strategy, localDeviceInfo, transports, connections, connectionStates>>

\* ----------------------------------------------------------------- sendMessage
\* P2PConnection.isReady (part_001 lines 945-954)
transportReady(tr) == tr.isConnected /\ tr.dc = "open" /\ tr.pc = "connected"

\* the `type` fields of the messages the application hands to sendMessage
MessageTypes == {"text", "file", "control", "handshake"}

\* sendFileViaWebRTC (lines 507-515): sendFile's rejection becomes false;
\* `completes`: the peer accepts and the transfer runs to its End
sendFileViaWebRTC(tr, completes) ==
  IF transportReady(tr) /\ completes THEN "true" ELSE "false"

\* the try block of sendMessage (lines 487-500): sendText throws unless the
\* connection is ready, sendCustomMessage unless the data channel is open, a
\* type without a branch sends nothing and returns true,
\* WebSocketConnection.send returns whether the socket was open
trySend(tr, type, completes) ==
  IF tr.kind = WEBRTC
  THEN CASE type = "text" -> IF transportReady(tr) THEN "true" ELSE "throw"
         [] type = "handshake" -> IF tr.dc = "open" THEN "true" ELSE "throw"
         [] type = "file" -> sendFileViaWebRTC(tr, completes)
         [] OTHER -> "true"
  ELSE IF channelOpen(tr) THEN "true" ELSE "false"

\* the same try block: does it give the message to the transport's channel
\* (sendText line 866, sendCustomMessage line 883 and sendFile of part_001,
\* ws.send line 633); a type without a branch reaches no send
handedOver(tr, type, completes) ==
  IF tr.kind = WEBRTC
  THEN CASE type = "text" -> transportReady(tr)
         [] type = "handshake" -> tr.dc = "open"
         [] type = "file" -> transportReady(tr) /\ completes
         [] OTHER -> FALSE
  ELSE channelOpen(tr)

\* a sendMessage that lets the error out
catchSend_rethrows(r) == r

\* the catch of sendMessage (lines 501-504)
catchSend(r) == IF r = "throw" THEN "false" ELSE r

\* sendMessage (lines 480-505)
sendMessage(d, type, completes) ==
  /\ returned' = <<[op |-> "sendMessage", deviceId |-> d,
                    result |-> IF connections[d] = None THEN "false"
                               ELSE catchSend(trySend(transports[connections[d]], type, completes)),
                    call |-> NoCall]>>
  /\ emitted' = <<>>
  /\ UNCHANGED <<strategy, localDeviceInfo, transports, connections, connectionStates,
                 messageHandlers>>

\* addEventListener (lines 570-572): Set.add keeps a listener once, in
\* insertion order
addEventListener(l) ==
  /\ eventListeners' = IF \E i \in 1..Len(eventListeners) : eventListeners[i] = l
                       THEN eventListeners ELSE Append(eventListeners, l)
  /\ invoked' = <<>>
  /\ seen' = <<>>
  /\ emitted' = <<>>
  /\ returned' = <<>>
  /\ UNCHANGED <<strategy, localDeviceInfo, transports, connections, connectionStates,
                 messageHandlers>>

\* removeEventListener (lines 574-576)
removeEventListener(l) ==
  /\ eventListeners' = SelectSeq(eventListeners, LAMBDA x : x # l)
  /\ invoked' = <<>>
  /\ seen' = <<>>
  /\ emitted' = <<>>
  /\ returned' = <<>>
  /\ UNCHANGED <<strategy, localDeviceInfo, transports, connections, connectionStates,
                 messageHandlers>>

\* ------------------------------------------------------------------ disconnect
\* disconnect (lines 538-555)
disconnect(d) ==
  /\ IF connections[d] # None
     THEN /\ transports' = collect([transports EXCEPT ![connections[d]] = close(@)],
                                   [connections EXCEPT ![d] = None])
          /\ connections' = [connections EXCEPT ![d] = None]
     ELSE UNCHANGED <<transports, connections>>
  /\ IF connectionStates[d] # NoState
     THEN LET st == [connectionStates[d] EXCEPT !.status = "disconnected"] IN
          /\ connectionStates' = [connectionStates EXCEPT ![d] = st]
          /\ emitted' = emitEvent(<<>>, StateEvent(d, st))
     ELSE emitted' = <<>> /\ UNCHANGED connectionStates
  /\ returned' = <<>>
  /\ UNCHANGED <<strategy, localDeviceInfo, messageHandlers>>

\* ======================================================================
\* P2PConnection.sendFile (src/unnamed/part_001), the sending side of one
\* open connection
\* ======================================================================
CHUNK_SIZE == 16384
PACKET_MAGIC == 1111774284
HEADER_SIZE == 44
FILE_ID_BYTES == 36
NUL == "\\0"

\* concurrent sendFile calls on the connection, and chunks per file
MaxSends == 1
MaxChunks == 2

SendCalls == 1..MaxSends

\* file.size values: empty, one byte, exact multiples of CHUNK_SIZE and one over
FileSizes ==
  {k * CHUNK_SIZE + e : k \in 0..(MaxChunks - 1), e \in {0, 1, CHUNK_SIZE}}
    \ {s \in Nat : s > MaxChunks * CHUNK_SIZE}

\* Math.random().toString(36).substring(7) of the c-th call: the draws of
\* calls alive together are taken to differ
FileIdOf(c) == <<"f", ToString(c)>>

VARIABLES
  sdc,        \* dataChannel.readyState of the sending connection ("null": closed by close())
  spc,        \* peerConnection.connectionState
  sReady,     \* isConnected
  sends,      \* the sendFile calls: phase, file size, offset, chunkIndex, accept wait
  wire,       \* what each sendFile call has handed to dataChannel.send, in order
  accepted,   \* per call: a FileAccept for its fileId has arrived since its Metadata
  rejectMark, \* per call: how much it had sent when a FileReject for its fileId
              \* first arrived during the call and before its End (-1: none)
  buffered,   \* dataChannel.bufferedAmount, as the thresholds of sendFile see it
  progress    \* per call: the `transferred` values onProgress was called with

svars == <<sdc, spc, sReady, sends, wire, accepted, rejectMark, buffered, progress>>

\* bufferedAmount against MAX_BUFFER_SIZE (16 MB, line 723) and the pacing
\* threshold (1 MB, line 753): at most 1 MB, above 1 MB, above 16 MB
BufferLevels == {"low", "mid", "high"}

IdleSend ==
  [phase |-> "idle", size |-> 0, offset |-> 0, chunkIndex |-> 0,
   listening |-> FALSE, timer |-> FALSE, settled |-> FALSE]

\* isReady (lines 945-954)
isReady == sReady /\ sdc = "open" /\ spc = "connected"

\* sendFile, checkConnection (lines 628-635)
checkConnection == sdc = "open" /\ spc = "connected"

\* Math.ceil(fileSize / chunkSize) (line 625)
chunkCount(size) == (size + CHUNK_SIZE - 1) \div CHUNK_SIZE

\* fileId.padEnd(36, '\0') (line 203)
padEnd(id) ==
  IF Len(id) >= FILE_ID_BYTES THEN id
  ELSE id \o [i \in 1..(FILE_ID_BYTES - Len(id)) |-> NUL]

\* a character outside ASCII, and the two bytes UTF-8 gives it; every other
\* character of the model is ASCII and stands for its own single byte
WideChar == "e'"
WideBytes == <<"C3", "A9">>

\* what TextDecoder puts for bytes that are no character
ReplacementChar == "U+FFFD"

\* new TextEncoder().encode(str) (line 203)
RECURSIVE encode(_)
encode(str) ==
  IF str = <<>> THEN <<>>
  ELSE (IF str[1] = WideChar THEN WideBytes ELSE <<str[1]>>) \o encode(Tail(str))

\* new TextDecoder().decode(bytes) (line 229)
RECURSIVE decode(_)
decode(bytes) ==
  IF bytes = <<>> THEN <<>>
  ELSE IF Len(bytes) >= 2 /\ SubSeq(bytes, 1, 2) = WideBytes
  THEN <<WideChar>> \o decode(SubSeq(bytes, 3, Len(bytes)))
  ELSE IF bytes[1] \in {WideBytes[1], WideBytes[2]}
  THEN <<ReplacementChar>> \o decode(Tail(bytes))
  ELSE <<bytes[1]>> \o decode(Tail(bytes))

\* headerArray.set(fileIdBytes, 4) throws when the source does not fit
RangeError == [type |-> "RangeError"]

\* createPacketHeader (lines 195-211): the padded fileId is written from byte 4
\* on, how long it may be, and the chunkIndex is written over bytes 40-43
\* afterwards; setUint32 keeps chunkIndex as it is, a file of 2^32 chunks being
\* out of reach
createPacketHeader(fileId, chunkIndex) ==
  LET fileIdBytes == encode(padEnd(fileId)) IN
  IF 4 + Len(fileIdBytes) > HEADER_SIZE THEN RangeError
  ELSE [magic |-> PACKET_MAGIC, fileId |-> SubSeq(fileIdBytes, 1, FILE_ID_BYTES),
        chunkIndex |-> chunkIndex]

\* the JSON messages of the file protocol
Metadata(fileId, size) ==
  [type |-> "metadata", fileId |-> fileId, size |-> size, chunks |-> chunkCount(size)]
FileEnd(fileId) == [type |-> "end", fileId |-> fileId]
FileCancelMessage(fileId) == [type |-> "file_cancel", fileId |-> fileId]

\* lines 712-730: header + file.slice(offset, offset + chunkSize) in one packet
Packet(fileId, chunkIndex, size, offset) ==
  LET to == IF offset + CHUNK_SIZE < size THEN offset + CHUNK_SIZE ELSE size IN
  [type |-> "binary", byteLength |-> HEADER_SIZE + (to - offset),
   header |-> createPacketHeader(fileId, chunkIndex),
   data |-> [file |-> fileId, from |-> offset, to |-> to]]

\* sendFile lines 614-696 up to `await acceptPromise`
sendFile(c, size) ==
  /\ sends[c].phase = "idle"
  /\ IF ~isReady
     THEN /\ sends' = [sends EXCEPT ![c] = [@ EXCEPT !.phase = "notReady", !.size = size]]
          /\ UNCHANGED wire
     ELSE /\ wire' = [wire EXCEPT ![c] = Append(@, Metadata(FileIdOf(c), size))]
          /\ sends' = [sends EXCEPT ![c] =
                         [@ EXCEPT !.phase = "waitAccept", !.size = size,
                                   !.listening = TRUE, !.timer = TRUE]]
  /\ UNCHANGED <<sdc, spc, sReady, accepted, rejectMark, buffered, progress>>

\* a listener that resolves `accepted: true` on either answer
acceptResult_alwaysTrue(type) == TRUE

\* the accept listener (lines 676-684): what the promise resolves with
acceptResult(type) == type = "file_accept"

\* lines 744-756 and 759-767: after a chunk went out, the loop test, the next
\* checkConnection and either the next slice or End
afterChunk(call, f, W) ==
  IF call.offset < call.size
  THEN IF checkConnection
       THEN <<[call EXCEPT !.phase = "chunking"], W>>
       ELSE <<[call EXCEPT !.phase = "error"], W>>
  ELSE IF checkConnection
       THEN <<[call EXCEPT !.phase = "done"], Append(W, FileEnd(f))>>
       ELSE <<[call EXCEPT !.phase = "error"], W>>

\* lines 686-704: sendFile resumes when acceptPromise resolves
afterAccept(call, f, type, W) ==
  IF ~acceptResult(type) THEN <<[call EXCEPT !.phase = "rejected"], W>>
  ELSE IF ~checkConnection THEN <<[call EXCEPT !.phase = "error"], W>>
  ELSE afterChunk(call, f, W)

\* dataChannel.onmessage delivers a FileAccept / FileReject for fileId f to the
\* accept listeners (lines 676-684), which stay subscribed after an accept
SenderReceive(type, c) ==
  LET f == FileIdOf(c)
      call == sends[c]
      r == IF call.listening /\ ~call.settled
           THEN afterAccept([call EXCEPT !.timer = FALSE, !.settled = TRUE], f, type, wire[c])
           ELSE <<call, wire[c]>>
  IN /\ sdc = "open"
     /\ sends' = [sends EXCEPT ![c] = r[1]]
     /\ wire' = [wire EXCEPT ![c] = r[2]]
     /\ accepted' = IF type = "file_accept" /\ call.phase # "idle"
                     THEN [accepted EXCEPT ![c] = TRUE]
                     ELSE accepted
     /\ rejectMark' =
          IF /\ type = "file_reject"
             /\ call.phase \in {"waitAccept", "chunking"}
             /\ rejectMark[c] = -1
          THEN [rejectMark EXCEPT ![c] = Len(wire[c])]
          ELSE rejectMark
     /\ UNCHANGED <<sdc, spc, sReady, buffered, progress>>

\* a timeout handler that rejects without telling the receiver
sendCancel_never(W, f) == W

\* the timeout callback's try / catch around send (lines 661-670)
sendCancel(W, f) ==
  IF sdc = "open" THEN Append(W, FileCancelMessage(f)) ELSE W

\* the 60 s timer of the accept wait fires (lines 658-673)
AcceptTimeout(c) ==
  /\ sends[c].timer
  /\ wire' = [wire EXCEPT ![c] = sendCancel(@, FileIdOf(c))]
  /\ sends' = [sends EXCEPT ![c] =
                 [@ EXCEPT !.timer = FALSE, !.listening = FALSE, !.settled = TRUE,
                           !.phase = "timeout"]]
  /\ UNCHANGED <<sdc, spc, sReady, accepted, rejectMark, buffered, progress>>

\* lines 727-756: dataChannel.send(packet), a closed or null channel makes it
\* throw; then offset and chunkIndex advance, onProgress is called with the
\* new offset, and a buffer above 1 MB makes the loop wait 10 ms
sendPacket(c, call) ==
  LET f == FileIdOf(c)
      sent == [call EXCEPT !.offset = @ + CHUNK_SIZE, !.chunkIndex = @ + 1]
      W == Append(wire[c], Packet(f, call.chunkIndex, call.size, call.offset))
      r == IF sdc # "open" THEN <<[call EXCEPT !.phase = "error"], wire[c]>>
           ELSE IF buffered # "low" THEN <<[sent EXCEPT !.phase = "pacing"], W>>
           ELSE afterChunk(sent, f, W)
  IN /\ sends' = [sends EXCEPT ![c] = r[1]]
     /\ wire' = [wire EXCEPT ![c] = r[2]]
     /\ progress' = IF sdc # "open" THEN progress
                    ELSE [progress EXCEPT ![c] = Append(@, sent.offset)]

\* the backpressure loop (lines 722-726) reads bufferedAmount: a channel that
\* close() has set to null makes the read throw, a buffer above 16 MB makes
\* the loop wait 50 ms, otherwise the packet is sent
backpressure(c, call) ==
  IF sdc = "null"
  THEN /\ sends' = [sends EXCEPT ![c] = [call EXCEPT !.phase = "error"]]
       /\ UNCHANGED <<wire, progress>>
  ELSE IF buffered = "high"
  THEN /\ sends' = [sends EXCEPT ![c] = [call EXCEPT !.phase = "backpressure"]]
       /\ UNCHANGED <<wire, progress>>
  ELSE sendPacket(c, call)

\* chunk.arrayBuffer() resolves (line 711): the packet is built (lines 713-720)
\* and the backpressure loop is entered
ChunkRead(c) ==
  /\ sends[c].phase = "chunking"
  /\ backpressure(c, sends[c])
  /\ UNCHANGED <<sdc, spc, sReady, accepted, rejectMark, buffered>>

\* the 50 ms timer of the backpressure loop fires (line 725)
BackpressurePoll(c) ==
  /\ sends[c].phase = "backpressure"
  /\ backpressure(c, sends[c])
  /\ UNCHANGED <<sdc, spc, sReady, accepted, rejectMark, buffered>>

\* the 10 ms pacing timer fires (lines 752-756): the loop goes on
PacingDelay(c) ==
  LET r == afterChunk(sends[c], FileIdOf(c), wire[c]) IN
  /\ sends[c].phase = "pacing"
  /\ sends' = [sends EXCEPT ![c] = r[1]]
  /\ wire' = [wire EXCEPT ![c] = r[2]]
  /\ UNCHANGED <<sdc, spc, sReady, accepted, rejectMark, buffered, progress>>

\* the browser: the send buffer of an open channel fills and drains; a closed
\* channel sends nothing, and its bufferedAmount is not reset
BufferChange(level) ==
  /\ sdc = "open"
  /\ buffered # level
  /\ buffered' = level
  /\ UNCHANGED <<sdc, spc, sReady, sends, wire, accepted, rejectMark, progress>>

\* dataChannel.onerror / onclose (lines 422-430)
SDcClose ==
  /\ sdc = "open"
  /\ sdc' = "closed"
  /\ sReady' = FALSE
  /\ UNCHANGED <<spc, sends, wire, accepted, rejectMark, buffered, progress>>

\* onconnectionstatechange (lines 378-392)
SPcState(s) ==
  /\ spc \in {"connected", "failed"}
  /\ spc # s
  /\ spc' = s
  /\ sReady' = IF s = "failed" THEN FALSE ELSE sReady
  /\ UNCHANGED <<sdc, sends, wire, accepted, rejectMark, buffered, progress>>

\* P2PConnection.close (lines 926-938)
SClose ==
  /\ sdc # "null"
  /\ sdc' = "null"
  /\ spc' = "closed"
  /\ sReady' = FALSE
  /\ UNCHANGED <<sends, wire, accepted, rejectMark, buffered, progress>>

SendIdle ==
  /\ sdc = "open"
  /\ spc = "connected"
  /\ sReady = TRUE
  /\ sends = [c \in SendCalls |-> IdleSend]
  /\ wire = [c \in SendCalls |-> <<>>]
  /\ accepted = [c \in SendCalls |-> FALSE]
  /\ rejectMark = [c \in SendCalls |-> -1]
  /\ buffered = "low"
  /\ progress = [c \in SendCalls |-> <<>>]

\* ======================================================================
\* P2PConnection.receiveFile and handleMessage (src/unnamed/part_001), the
\* receiving side of one open connection whose peer runs sendFile
\* ======================================================================
\* the files the peer sends
RecvFiles == {FileIdOf(1), FileIdOf(2)}

\* their sizes: empty, ending in a one-byte chunk, and whole chunks only
PeerSizes == {0, (MaxChunks - 1) * CHUNK_SIZE + 1, MaxChunks * CHUNK_SIZE}

NoMeta == [type |-> "none"]

VARIABLES
  sessions,   \* per fileId: the receiveFile call for it (closure variables metadata,
              \* chunks, receivedSize; the promise; its place in messageListeners),
              \* with `fed`: the messages tagged with its fileId that arrived while
              \* its listener was subscribed, in order
  peer        \* per fileId: how far the peer's sendFile has got

rvars == <<sessions, peer>>

NoSession ==
  [status |-> "none", metadata |-> NoMeta, chunks |-> <<>>, receivedSize |-> 0,
   file |-> <<>>, initial |-> FALSE, fed |-> <<>>,
   listening |-> FALSE, timer |-> "none"]

\* bytes of a range of a file
byteLength(d) == d.to - d.from

\* new Blob(chunks): the buffers end to end; bytes that continue one another in
\* the source file form one range, empty buffers add nothing
RECURSIVE Blob(_)
Blob(chunks) ==
  IF chunks = <<>> THEN <<>>
  ELSE LET rest == Blob(Tail(chunks))
           h == Head(chunks)
       IN IF byteLength(h) = 0 THEN rest
          ELSE IF rest # <<>> /\ rest[1].file = h.file /\ rest[1].from = h.to
          THEN <<[h EXCEPT !.to = rest[1].to]>> \o Tail(rest)
          ELSE <<h>> \o rest

RECURSIVE blobSize(_)
blobSize(b) == IF b = <<>> THEN 0 ELSE byteLength(b[1]) + blobSize(Tail(b))

\* .replace(/\0+$/, '') (line 229)
RECURSIVE stripNul(_)
stripNul(id) ==
  IF id # <<>> /\ id[Len(id)] = NUL THEN stripNul(SubSeq(id, 1, Len(id) - 1)) ELSE id

\* parsePacketHeader (lines 214-235); NoMeta stands for null
parsePacketHeader(pkt) ==
  IF pkt.byteLength < HEADER_SIZE THEN NoMeta
  ELSE IF pkt.header.magic # PACKET_MAGIC THEN NoMeta
  ELSE [type |-> "header", fileId |-> stripNul(decode(pkt.header.fileId)),
        chunkIndex |-> pkt.header.chunkIndex]

\* handleMessage (lines 433-472): the DataMessage built from what arrived
parseMessage(data) ==
  IF data.type # "binary" THEN data
  ELSE LET headerInfo == parsePacketHeader(data) IN
       IF headerInfo # NoMeta
       THEN [type |-> "chunk", fileId |-> headerInfo.fileId,
             chunkIndex |-> headerInfo.chunkIndex, data |-> data.data]
       ELSE [type |-> "chunk", fileId |-> <<>>, chunkIndex |-> 0,
             data |-> [file |-> <<>>, from |-> 0, to |-> data.byteLength]]

\* a listener that takes every chunk, whatever file it belongs to
isForSession_anyChunk(m, fileId) == m.type = "chunk" \/ m.fileId = fileId

\* the listener's fileId filter (lines 789-797)
isForSession(m, fileId) == m.fileId = fileId

\* a buffer that files each chunk under its chunkIndex
storeChunk_byIndex(chunks, m) ==
  IF m.chunkIndex < Len(chunks)
  THEN [chunks EXCEPT ![m.chunkIndex + 1] = m.data]
  ELSE Append(chunks, m.data)

\* chunks.push(message.data) (line 810)
storeChunk(chunks, m) == Append(chunks, m.data)

\* a promise that a later resolve or reject overwrites
settle_overwrites(ses, outcome) == [ses EXCEPT !.status = outcome]

\* resolve(...) and reject(...) of the promise of receiveFile (lines 838, 846):
\* only a pending promise takes an outcome
settle(ses, outcome) ==
  IF ses.status = "open" THEN [ses EXCEPT !.status = outcome] ELSE ses

\* the listener of receiveFile (lines 786-838) for the session of fileId, on
\* DataMessage m; it runs while it is in messageListeners
listener(ses, fileId, m) ==
  IF ~ses.listening \/ ~isForSession(m, fileId) THEN ses
  ELSE CASE m.type = "metadata" ->
              [ses EXCEPT !.metadata = m, !.chunks = <<>>, !.receivedSize = 0]
         [] m.type = "chunk" ->
              IF ses.metadata # NoMeta
              THEN [ses EXCEPT !.chunks = storeChunk(@, m),
                               !.receivedSize = @ + byteLength(m.data)]
              ELSE ses
         [] m.type = "end" ->
              IF ses.metadata # NoMeta
              THEN settle([ses EXCEPT !.listening = FALSE, !.file = Blob(ses.chunks)],
                          "resolved")
              ELSE ses
         [] OTHER -> ses

\* dataChannel.onmessage -> handleMessage: every listener sees the message
handleMessage(data) ==
  LET m == parseMessage(data)
      tagged(f) == IF sessions[f].listening /\ m.fileId = f
                   THEN [sessions[f] EXCEPT !.fed =
                           Append(@, IF m.type = "chunk"
                                     THEN [type |-> "chunk", data |-> m.data]
                                     ELSE m)]
                   ELSE sessions[f]
  IN sessions' = [f \in RecvFiles |-> listener(tagged(f), f, m)]

\* receiveFile (lines 775-849); initialMetadata is the Metadata the application
\* has received for the file
receiveFile(f, withMeta) ==
  /\ sessions[f].status = "none"
  /\ withMeta => peer[f].phase # "none"
  /\ sessions' = [sessions EXCEPT ![f] =
                    [NoSession EXCEPT !.status = "open", !.initial = withMeta,
                                      !.listening = TRUE, !.timer = "armed",
                                      !.metadata = IF withMeta THEN Metadata(f, peer[f].size)
                                                   ELSE NoMeta]]
  /\ UNCHANGED peer

\* the 300 s timer (lines 843-846), which nothing clears: it fires whether or
\* not the session has resolved
ReceiveTimeout(f) ==
  /\ sessions[f].timer = "armed"
  /\ sessions' = [sessions EXCEPT ![f] =
                    settle([@ EXCEPT !.timer = "fired", !.listening = FALSE], "timeout")]
  /\ UNCHANGED peer

\* the peer's sendFile puts its Metadata on the wire
PeerMetadata(f, size) ==
  /\ peer[f].phase = "none"
  /\ peer' = [peer EXCEPT ![f] = [phase |-> "sending", size |-> size, offset |-> 0]]
  /\ handleMessage(Metadata(f, size))

\* the peer's next packet arrives; the index in its header is whatever the peer
\* wrote there
PeerChunk(f, idx) ==
  /\ peer[f].phase = "sending"
  /\ peer[f].offset < peer[f].size
  /\ peer' = [peer EXCEPT ![f].offset = @ + CHUNK_SIZE]
  /\ handleMessage(Packet(f, idx, peer[f].size, peer[f].offset))

PeerEnd(f) ==
  /\ peer[f].phase = "sending"
  /\ peer[f].offset >= peer[f].size
  /\ peer' = [peer EXCEPT ![f].phase = "ended"]
  /\ handleMessage(FileEnd(f))

\* a binary message too short for a header, or with another magic number
JunkSizes == {HEADER_SIZE - 1, HEADER_SIZE + 1}

PeerJunk(len) ==
  /\ handleMessage([type |-> "binary", byteLength |-> len,
                    header |-> [magic |-> 0, fileId |-> encode(padEnd(FileIdOf(1))), chunkIndex |-> 0],
                    data |-> [file |-> <<>>, from |-> HEADER_SIZE, to |-> len]])
  /\ UNCHANGED peer

RecvIdle ==
  /\ sessions = [f \in RecvFiles |-> NoSession]
  /\ peer = [f \in RecvFiles |-> [phase |-> "none", size |-> 0, offset |-> 0]]

\* ======================================================================
\* The functions of the two modules, called on their own
\* ======================================================================
VARIABLES
  lastCall    \* a call of one of the functions: its name and arguments and,
              \* once it has run, its result

pvars == <<lastCall>>

NoCallYet == [fn |-> "none"]

PureIdle == lastCall = NoCallYet

\* a call that has its arguments and has not run yet
Pending(name, args) == [fn |-> "pending", name |-> name, args |-> args]
isPending(name) == lastCall.fn = "pending" /\ lastCall.name = name

\* a `type` the application does not know
UnknownType == "ping"

\* the payloads getMessageType is called on
Payloads ==
  {Payload("string", FALSE, FALSE, NoType), Payload("string", TRUE, TRUE, NoType),
   Payload("binary", FALSE, FALSE, NoType)}
    \cup {Payload(form, TRUE, FALSE, type) :
            form \in {"string", "object"},
            type \in MessageKinds \cup ProtocolTags \cup {UnknownType, NoType}}

callGetMessageType ==
  /\ isPending("getMessageType")
  /\ LET message == lastCall.args IN
     lastCall' = [fn |-> "getMessageType", message |-> message,
                  result |-> getMessageType(message)]

\* fileIds of AsciiChars ASCII characters followed by WideChars wide ones
Chars(n, ch) == [i \in 1..n |-> ch]
FileIdLike(ascii, wide) == Chars(ascii, "a") \o Chars(wide, WideChar)

\* lengths around the 36 bytes of the field and the 44 of the header
AsciiLengths == {0, 1, 26, 31, 32, 35, 36, 37, 40, 41}
WideLengths == {0, 1, 4, 5}
FileIds == {FileIdLike(ascii, wide) : ascii \in AsciiLengths, wide \in WideLengths}

\* chunkIndex values, up to the largest TLC's integers hold
ChunkIndexes == {0, 1, 2147483647}

\* payload lengths: empty, one byte, a full chunk
PayloadLengths == {0, 1, CHUNK_SIZE}

\* sendFile's packet assembly (lines 704-720) for one chunk, and handleMessage's
\* binary branch (lines 447-460) on the packet
callEncodeDecode ==
  /\ isPending("encode")
  /\ LET fileId == lastCall.args.fileId
         chunkIndex == lastCall.args.chunkIndex
         length == lastCall.args.length
         thrown == createPacketHeader(fileId, chunkIndex) = RangeError
         packet == Packet(fileId, chunkIndex, length, 0)
     IN lastCall' = [fn |-> "encode", fileId |-> fileId, chunkIndex |-> chunkIndex,
                     payload |-> [file |-> fileId, from |-> 0, to |-> length],
                     result |-> IF thrown THEN RangeError ELSE packet,
                     decoded |-> IF thrown THEN RangeError ELSE parseMessage(packet)]

\* ----------------------------------------------------------------------
\* SDPCompressor (part_001, lines 8-141).  A text is the sequence of its words
\* and line breaks.
\* ----------------------------------------------------------------------
VERSION_PREFIX == "X1:"
NL == "\\n"

\* sdp.split('\n') (line 81)
RECURSIVE split(_)
split(text) ==
  IF text = <<>> THEN << <<>> >>
  ELSE LET rest == split(Tail(text)) IN
       IF text[1] = NL THEN << <<>> >> \o rest
       ELSE << <<text[1]>> \o rest[1] >> \o Tail(rest)

\* optimized.join('\n') (line 112)
RECURSIVE join(_)
join(lines) ==
  IF lines = <<>> THEN <<>>
  ELSE IF Len(lines) = 1 THEN lines[1]
  ELSE lines[1] \o <<NL>> \o join(Tail(lines))

startsWith(line, word) == line # <<>> /\ line[1] = word
includes(line, word) == \E i \in 1..Len(line) : line[i] = word

maxHostCandidates == 2

\* a filter that keeps every host candidate
keepLine_allHosts(line, hostCount) ==
  IF startsWith(line, "a=candidate:")
  THEN includes(line, "typ host") \/ includes(line, "typ srflx") \/ includes(line, "typ relay")
  ELSE TRUE

\* the filter callback (lines 85-109), hostCount already counting this line
keepLine(line, hostCount) ==
  IF startsWith(line, "a=candidate:")
  THEN IF includes(line, "typ host") THEN hostCount <= maxHostCandidates
       ELSE IF includes(line, "typ srflx") THEN TRUE
       ELSE IF includes(line, "typ relay") THEN TRUE
       ELSE FALSE
  ELSE TRUE

\* lines.filter(...) (lines 85-110)
RECURSIVE filterLines(_, _)
filterLines(lines, hostCount) ==
  IF lines = <<>> THEN <<>>
  ELSE LET line == lines[1]
           isHost == startsWith(line, "a=candidate:") /\ includes(line, "typ host")
           count == IF isHost THEN hostCount + 1 ELSE hostCount
       IN (IF keepLine(line, count) THEN <<line>> ELSE <<>>)
            \o filterLines(Tail(lines), count)

\* optimizeSDP (lines 80-113)
optimizeSDP(sdp) == join(filterLines(split(sdp), 0))

\* LZString: a lossless coding whose output is never the text itself;
\* decompressFromEncodedURIComponent gives back what was compressed
compressToEncodedURIComponent(input) == [lz |-> input]
decompressFromEncodedURIComponent(compressed) == compressed.lz

\* compress (lines 20-34): VERSION_PREFIX + compressed
compress(sdp) ==
  [prefix |-> VERSION_PREFIX,
   rest |-> compressToEncodedURIComponent(optimizeSDP(sdp))]

\* decompress returns a string or null
Null == [isNull |-> TRUE, text |-> <<>>]
Text(text) == [isNull |-> FALSE, text |-> text]

\* decompress (lines 41-72) on a code that compress made: an empty string
\* is falsy, the throw of line 49 ends in the catch
decompress(code) ==
  IF code.prefix = VERSION_PREFIX
  THEN LET decompressed == decompressFromEncodedURIComponent(code.rest) IN
       IF decompressed = <<>> THEN Null ELSE Text(decompressed)
  ELSE Null

\* isCompressed (lines 138-140)
isCompressed(code) == code.prefix = VERSION_PREFIX

\* lines of a session description: version and name lines, an empty line,
\* candidates of each type (two hosts that differ), and a line that mentions
\* a host candidate without being one
SdpLines ==
  {<<"v=0">>, <<"s=-">>, <<>>,
   <<"a=candidate:", "1", "typ host">>, <<"a=candidate:", "2", "typ host">>,
   <<"a=candidate:", "3", "typ srflx">>, <<"a=candidate:", "4", "typ relay">>,
   <<"a=candidate:", "5", "typ prflx">>, <<"a=end-of-candidates", "typ host">>}

\* lines per text
MaxLines == 3

SdpTexts == UNION {{join(lines) : lines \in [1..n -> SdpLines]} : n \in 1..MaxLines}

callCompress ==
  /\ isPending("compress")
  /\ LET sdp == lastCall.args
         code == compress(sdp)
     IN lastCall' = [fn |-> "compress", sdp |-> sdp, code |-> code,
                     isCompressed |-> isCompressed(code),
                     result |-> decompress(code)]

\* the calls made
PendingCalls ==
  {Pending("getMessageType", message) : message \in Payloads}
    \cup {Pending("encode", [fileId |-> fileId, chunkIndex |-> chunkIndex, length |-> length]) :
            fileId \in FileIds, chunkIndex \in ChunkIndexes, length \in PayloadLengths}
    \cup {Pending("compress", sdp) : sdp \in SdpTexts}

\* ======================================================================
\* Specifications
\* ======================================================================
vars == <<mvars, svars, rvars, pvars>>

\* The callers in the application pass provisional ('manual-...') ids to
\* createManualConnection and handshake-learnt (real) ids to connectToDevice.
ManagerInit ==
  /\ strategy \in Strategies
  /\ transports = [t \in Slots |-> Free]
  /\ connections = [d \in DeviceIds |-> None]
  /\ connectionStates = [d \in DeviceIds |-> NoState]
  /\ messageHandlers = [d \in DeviceIds |-> NoHandler]
  /\ localDeviceInfo = FALSE
  /\ eventListeners = <<>>
  /\ invoked = <<>>
  /\ seen = <<>>
  /\ emitted = <<>>
  /\ returned = <<>>

\* the manager with no file transfer in progress
Init == ManagerInit /\ SendIdle /\ RecvIdle /\ PureIdle

Next ==
  \/ \E d \in RealIds, badUrl \in BOOLEAN : connectToDevice(d, badUrl) /\ Notify /\ UNCHANGED <<svars, rvars, pvars>>
  \/ \E d \in ProvisionalIds :
       hasRoom(transports) /\ createManualConnection(d) /\ Notify /\ UNCHANGED <<svars, rvars, pvars>>
  \/ \E d \in DeviceIds : registerHandler(d) /\ Notify /\ UNCHANGED <<svars, rvars, pvars>>
  \/ \E d \in DeviceIds : disconnect(d) /\ Notify /\ UNCHANGED <<svars, rvars, pvars>>
  \/ \E t \in Slots : Timeout(t) /\ Notify /\ UNCHANGED <<svars, rvars, pvars>>
  \/ \E t \in Slots : InitiateFail(t) /\ Notify /\ UNCHANGED <<svars, rvars, pvars>>
  \/ \E t \in Slots, s \in {"connected", "failed"} : PcState(t, s) /\ Notify /\ UNCHANGED <<svars, rvars, pvars>>
  \/ \E t \in Slots : DcOpen(t) /\ Notify /\ UNCHANGED <<svars, rvars, pvars>>
  \/ \E t \in Slots : DcClose(t) /\ Notify /\ UNCHANGED <<svars, rvars, pvars>>
  \/ \E t \in Slots : HandshakeTimer(t) /\ Notify /\ UNCHANGED <<svars, rvars, pvars>>
  \/ \E t \in Slots : WsOpen(t) /\ Notify /\ UNCHANGED <<svars, rvars, pvars>>
  \/ \E t \in Slots : WsError(t) /\ Notify /\ UNCHANGED <<svars, rvars, pvars>>
  \/ \E t \in Slots, raw \in RawTypes, hid \in HandshakeIds :
       Receive(t, raw, hid) /\ Notify /\ UNCHANGED <<svars, rvars, pvars>>

Spec == Init /\ [][Next]_vars

\* The manager of an application that has set its local device info, makes
\* manual connections (a second one may replace the first while it lives) and
\* connects to devices with the default strategy.
InitHandshake ==
  /\ ManagerInit
  /\ strategy = [preferredType |-> WEBRTC, fallbackTypes |-> <<WEBSOCKET>>]
  /\ SendIdle
  /\ RecvIdle
  /\ PureIdle

NextHandshake ==
  \/ setLocalDeviceInfo /\ Notify /\ UNCHANGED <<svars, rvars, pvars>>
  \/ \E d \in ProvisionalIds : createManualConnection(d) /\ Notify /\ UNCHANGED <<svars, rvars, pvars>>
  \/ \E d \in RealIds : connectToDevice(d, FALSE) /\ Notify /\ UNCHANGED <<svars, rvars, pvars>>
  \/ \E t \in Slots : Timeout(t) /\ Notify /\ UNCHANGED <<svars, rvars, pvars>>
  \/ \E t \in Slots : DcOpen(t) /\ Notify /\ UNCHANGED <<svars, rvars, pvars>>
  \/ \E t \in Slots : DcClose(t) /\ Notify /\ UNCHANGED <<svars, rvars, pvars>>
  \/ \E t \in Slots : HandshakeTimer(t) /\ Notify /\ UNCHANGED <<svars, rvars, pvars>>
  \/ \E t \in Slots, hid \in RealIds : Receive(t, "handshake", hid) /\ Notify /\ UNCHANGED <<svars, rvars, pvars>>
  \/ \E d \in DeviceIds : disconnect(d) /\ Notify /\ UNCHANGED <<svars, rvars, pvars>>

SpecHandshake == InitHandshake /\ [][NextHandshake]_vars

\* The manager with event listeners coming and going while devices are
\* connected, messages arrive and devices are disconnected.
NextEvents ==
  \/ \E l \in Listeners : addEventListener(l) /\ UNCHANGED <<svars, rvars, pvars>>
  \/ \E l \in Listeners : removeEventListener(l) /\ UNCHANGED <<svars, rvars, pvars>>
  \/ \E d \in RealIds, badUrl \in BOOLEAN :
       connectToDevice(d, badUrl) /\ Notify /\ UNCHANGED <<svars, rvars, pvars>>
  \/ \E d \in ProvisionalIds :
       hasRoom(transports) /\ createManualConnection(d) /\ Notify /\ UNCHANGED <<svars, rvars, pvars>>
  \/ \E t \in Slots : Timeout(t) /\ Notify /\ UNCHANGED <<svars, rvars, pvars>>
  \/ \E t \in Slots : DcOpen(t) /\ Notify /\ UNCHANGED <<svars, rvars, pvars>>
  \/ \E t \in Slots : HandshakeTimer(t) /\ Notify /\ UNCHANGED <<svars, rvars, pvars>>
  \/ \E t \in Slots, raw \in RawTypes, hid \in HandshakeIds :
       Receive(t, raw, hid) /\ Notify /\ UNCHANGED <<svars, rvars, pvars>>
  \/ \E d \in DeviceIds : registerHandler(d) /\ Notify /\ UNCHANGED <<svars, rvars, pvars>>
  \/ \E d \in DeviceIds : disconnect(d) /\ Notify /\ UNCHANGED <<svars, rvars, pvars>>

SpecEvents == InitHandshake /\ [][NextEvents]_vars

\* The manager with the default strategy: devices are connected, manually and
\* by connectToDevice, handshakes give provisional ids their real one and
\* devices are disconnected.
NextLinks ==
  \/ \E d \in RealIds, badUrl \in BOOLEAN :
       connectToDevice(d, badUrl) /\ Notify /\ UNCHANGED <<svars, rvars, pvars>>
  \/ \E d \in ProvisionalIds :
       hasRoom(transports) /\ createManualConnection(d) /\ Notify /\ UNCHANGED <<svars, rvars, pvars>>
  \/ \E d \in DeviceIds : disconnect(d) /\ Notify /\ UNCHANGED <<svars, rvars, pvars>>
  \/ \E t \in Slots : Timeout(t) /\ Notify /\ UNCHANGED <<svars, rvars, pvars>>
  \/ \E t \in Slots : InitiateFail(t) /\ Notify /\ UNCHANGED <<svars, rvars, pvars>>
  \/ \E t \in Slots, s \in {"connected", "failed"} :
       PcState(t, s) /\ Notify /\ UNCHANGED <<svars, rvars, pvars>>
  \/ \E t \in Slots : DcOpen(t) /\ Notify /\ UNCHANGED <<svars, rvars, pvars>>
  \/ \E t \in Slots : DcClose(t) /\ Notify /\ UNCHANGED <<svars, rvars, pvars>>
  \/ \E t \in Slots : HandshakeTimer(t) /\ Notify /\ UNCHANGED <<svars, rvars, pvars>>
  \/ \E t \in Slots : WsOpen(t) /\ Notify /\ UNCHANGED <<svars, rvars, pvars>>
  \/ \E t \in Slots : WsError(t) /\ Notify /\ UNCHANGED <<svars, rvars, pvars>>
  \/ \E t \in Slots, hid \in HandshakeIds :
       Receive(t, "handshake", hid) /\ Notify /\ UNCHANGED <<svars, rvars, pvars>>

SpecLinks == InitHandshake /\ [][NextLinks]_vars

\* The manager of an application that sends messages to devices whose
\* transports are absent, connecting, open, failed or closed.
NextMessages ==
  \/ \E d \in DeviceIds, type \in MessageTypes, completes \in BOOLEAN :
       sendMessage(d, type, completes) /\ Notify /\ UNCHANGED <<svars, rvars, pvars>>
  \/ \E d \in RealIds : connectToDevice(d, FALSE) /\ Notify /\ UNCHANGED <<svars, rvars, pvars>>
  \/ \E d \in ProvisionalIds :
       hasRoom(transports) /\ createManualConnection(d) /\ Notify /\ UNCHANGED <<svars, rvars, pvars>>
  \/ \E t \in Slots : Timeout(t) /\ Notify /\ UNCHANGED <<svars, rvars, pvars>>
  \/ \E t \in Slots, s \in {"connected", "failed"} :
       PcState(t, s) /\ Notify /\ UNCHANGED <<svars, rvars, pvars>>
  \/ \E t \in Slots : DcOpen(t) /\ Notify /\ UNCHANGED <<svars, rvars, pvars>>
  \/ \E t \in Slots : DcClose(t) /\ Notify /\ UNCHANGED <<svars, rvars, pvars>>
  \/ \E t \in Slots : HandshakeTimer(t) /\ Notify /\ UNCHANGED <<svars, rvars, pvars>>
  \/ \E t \in Slots : WsOpen(t) /\ Notify /\ UNCHANGED <<svars, rvars, pvars>>
  \/ \E t \in Slots : WsError(t) /\ Notify /\ UNCHANGED <<svars, rvars, pvars>>
  \/ \E d \in DeviceIds : disconnect(d) /\ Notify /\ UNCHANGED <<svars, rvars, pvars>>

SpecMessages == InitHandshake /\ [][NextMessages]_vars

\* one open P2PConnection on which files are sent; the manager is idle
ManagerIdle ==
  /\ strategy = [preferredType |-> WEBRTC, fallbackTypes |-> <<WEBSOCKET>>]
  /\ transports = [t \in Slots |-> Free]
  /\ connections = [d \in DeviceIds |-> None]
  /\ connectionStates = [d \in DeviceIds |-> NoState]
  /\ messageHandlers = [d \in DeviceIds |-> NoHandler]
  /\ localDeviceInfo = FALSE
  /\ eventListeners = <<>>
  /\ invoked = <<>>
  /\ seen = <<>>
  /\ emitted = <<>>
  /\ returned = <<>>

InitSend == ManagerIdle /\ SendIdle /\ RecvIdle /\ PureIdle

NextSend ==
  \/ \E c \in SendCalls, size \in FileSizes : sendFile(c, size) /\ UNCHANGED <<mvars, rvars, pvars>>
  \/ \E c \in SendCalls, type \in {"file_accept", "file_reject"} :
       SenderReceive(type, c) /\ UNCHANGED <<mvars, rvars, pvars>>
  \/ \E c \in SendCalls : AcceptTimeout(c) /\ UNCHANGED <<mvars, rvars, pvars>>
  \/ \E c \in SendCalls : ChunkRead(c) /\ UNCHANGED <<mvars, rvars, pvars>>
  \/ SDcClose /\ UNCHANGED <<mvars, rvars, pvars>>
  \/ \E s \in {"connected", "failed"} : SPcState(s) /\ UNCHANGED <<mvars, rvars, pvars>>
  \/ SClose /\ UNCHANGED <<mvars, rvars, pvars>>

SpecSend == InitSend /\ [][NextSend]_vars

\* the same connection with a send buffer that fills and drains, and timers
\* that fire: the accept timeout, the backpressure poll, the pacing delay
AcceptTimeoutFires(c) == AcceptTimeout(c) /\ UNCHANGED <<mvars, rvars, pvars>>
BackpressurePollFires(c) == BackpressurePoll(c) /\ UNCHANGED <<mvars, rvars, pvars>>
PacingDelayFires(c) == PacingDelay(c) /\ UNCHANGED <<mvars, rvars, pvars>>
ChunkReadDone(c) == ChunkRead(c) /\ UNCHANGED <<mvars, rvars, pvars>>

NextFlow ==
  \/ \E c \in SendCalls, size \in FileSizes : sendFile(c, size) /\ UNCHANGED <<mvars, rvars, pvars>>
  \/ \E c \in SendCalls, type \in {"file_accept", "file_reject"} :
       SenderReceive(type, c) /\ UNCHANGED <<mvars, rvars, pvars>>
  \/ \E c \in SendCalls : AcceptTimeoutFires(c)
  \/ \E c \in SendCalls : ChunkReadDone(c)
  \/ \E c \in SendCalls : BackpressurePollFires(c)
  \/ \E c \in SendCalls : PacingDelayFires(c)
  \/ \E level \in BufferLevels : BufferChange(level) /\ UNCHANGED <<mvars, rvars, pvars>>
  \/ SDcClose /\ UNCHANGED <<mvars, rvars, pvars>>
  \/ \E s \in {"connected", "failed"} : SPcState(s) /\ UNCHANGED <<mvars, rvars, pvars>>
  \/ SClose /\ UNCHANGED <<mvars, rvars, pvars>>

SpecFlow ==
  /\ InitSend
  /\ [][NextFlow]_vars
  /\ \A c \in SendCalls :
       /\ WF_vars(AcceptTimeoutFires(c))
       /\ WF_vars(BackpressurePollFires(c))
       /\ WF_vars(PacingDelayFires(c))
       /\ WF_vars(ChunkReadDone(c))

\* one open P2PConnection on which files are received
InitRecv == ManagerIdle /\ SendIdle /\ RecvIdle /\ PureIdle

NextRecv ==
  \/ \E f \in RecvFiles, withMeta \in BOOLEAN : receiveFile(f, withMeta) /\ UNCHANGED <<mvars, svars, pvars>>
  \/ \E f \in RecvFiles : ReceiveTimeout(f) /\ UNCHANGED <<mvars, svars, pvars>>
  \/ \E f \in RecvFiles, size \in PeerSizes : PeerMetadata(f, size) /\ UNCHANGED <<mvars, svars, pvars>>
  \/ \E f \in RecvFiles, idx \in 0..(MaxChunks - 1) : PeerChunk(f, idx) /\ UNCHANGED <<mvars, svars, pvars>>
  \/ \E f \in RecvFiles : PeerEnd(f) /\ UNCHANGED <<mvars, svars, pvars>>
  \/ \E len \in JunkSizes : PeerJunk(len) /\ UNCHANGED <<mvars, svars, pvars>>

SpecRecv == InitRecv /\ [][NextRecv]_vars

\* the manager with timers that fire: a setTimeout callback that is due runs;
\* nothing makes the network open a channel or report an error, or the
\* application call again
TimerFires(t) == Timeout(t) /\ Notify /\ UNCHANGED <<svars, rvars, pvars>>
HandshakeTimerFires(t) == HandshakeTimer(t) /\ Notify /\ UNCHANGED <<svars, rvars, pvars>>

SpecConnect ==
  /\ Init
  /\ [][Next]_vars
  /\ \A t \in Slots : WF_vars(TimerFires(t)) /\ WF_vars(HandshakeTimerFires(t))

\* the functions called on their own, nothing connected
InitPure == ManagerIdle /\ SendIdle /\ RecvIdle /\ lastCall \in PendingCalls

NextPure ==
  \/ callGetMessageType /\ UNCHANGED <<mvars, svars, rvars>>
  \/ callEncodeDecode /\ UNCHANGED <<mvars, svars, rvars>>
  \/ callCompress /\ UNCHANGED <<mvars, svars, rvars>>

SpecPure == InitPure /\ [][NextPure]_vars

\* ======================================================================
\* Claims about HybridConnectionManager: C1, C3 and C12 under Spec, C2 and
\* C10 under SpecLinks, C4 under SpecEvents
\* ======================================================================
Transports == {t \in Slots : transports[t] # Free}

\* the lookups of sendMessage (481-484), receiveFile (518-521) and
\* finalizeManualConnection (187-190) under deviceId d find nothing
NotFound(C, d) == C[d] = None

\* a step in which the channel of an attempt of connectToDevice opens
AttemptOpens(t) ==
  /\ t \in Transports
  /\ transports[t].origin = "connect"
  /\ transports[t].dc = "connecting"
  /\ transports'[t].dc = "open"

IsPrefix(p, q) == Len(p) <= Len(q) /\ SubSeq(q, 1, Len(p)) = p

\* C1: when the preferred kind has failed and the attempt of a fallback kind
\* succeeds (its channel opens), connectToDevice returns true and the device's
\* ConnectionState is Connected with that kind; the kinds are tried in the
\* configured order (preferred, then the fallbacks) and none after a success.
C1_FallbackConnects ==
  [][ /\ \A t \in Transports :
           AttemptOpens(t) /\ transports[t].call.idx > 1 =>
             /\ returned' = Return(transports[t].remote, "true",
                                   [transports[t].call EXCEPT !.registered = @ \cup {t}])
             /\ connectionStates'[transports[t].remote].status = "connected"
             /\ connectionStates'[transports[t].remote].type = transports[t].kind
      /\ \A i \in 1..Len(returned') :
           /\ IsPrefix(returned'[i].call.tried,
                       <<strategy.preferredType>> \o strategy.fallbackTypes)
           /\ returned'[i].result = "true" /\ returned'[i].call.tried # <<>> =>
                connectionStates'[returned'[i].deviceId].type
                  = returned'[i].call.tried[Len(returned'[i].call.tried)]
    ]_mvars

\* C2: a connectToDevice(d) step taken while d has a registered transport and a
\* Connected ConnectionState returns true at once and changes nothing: no
\* transport is created, registry and state are as before, no event is published.
C2_ReuseChangesNothing ==
  [][ \A d \in DeviceIds :
        /\ connections[d] # None
        /\ connectionStates[d].status = "connected"
        /\ \E badUrl \in BOOLEAN : connectToDevice(d, badUrl)
        => /\ returned' = Return(d, "true", NoCall)
           /\ emitted' = <<>>
           /\ UNCHANGED <<transports, connections, connectionStates, messageHandlers>>
    ]_mvars

C2_Witness ==
  /\ returned # <<>>
  /\ returned[1].result = "true"
  /\ returned[1].call = NoCall
  /\ connectionStates[returned[1].deviceId].status = "connected"

\* C3: when every configured kind has failed, connectToDevice returns false,
\* the device's ConnectionState is Failed, a connectionStateChanged event with
\* Failed has been published and the call has registered no transport.
C3_AllFailed ==
  \A i \in 1..Len(returned) :
    returned[i].result # "true" =>
      /\ returned[i].result = "false"
      /\ connectionStates[returned[i].deviceId].status = "failed"
      /\ \E k \in 1..Len(emitted) :
           /\ emitted[k].type = "connectionStateChanged"
           /\ emitted[k].deviceId = returned[i].deviceId
           /\ emitted[k].status = "failed"
      /\ returned[i].call.registered = {}

\* C4: when a transport registered under a provisional id receives a Handshake
\* with a real id, afterwards the transport, its ConnectionState (deviceId = the
\* real id) and the handler registered under the provisional id are found under
\* the real id, and nothing is found under the provisional id.
C4_RemapMovesAll ==
  [][ \A t \in Transports, real \in RealIds :
        LET cur == transports[t].currentDeviceId IN
        /\ startsWithManual(cur)
        /\ connections[cur] = t
        /\ Receive(t, "handshake", real)
        => /\ connections'[real] = t
           /\ connectionStates[cur] # NoState
           /\ connectionStates'[real] = [connectionStates[cur] EXCEPT !.deviceId = real]
           /\ messageHandlers[cur] # NoHandler => messageHandlers'[real] = messageHandlers[cur]
           /\ NotFound(connections', cur)
           /\ connectionStates'[cur] = NoState
           /\ messageHandlers'[cur] = NoHandler
    ]_mvars

C4_Witness ==
  \E t \in Transports, real \in RealIds :
    /\ startsWithManual(transports[t].remote)
    /\ transports[t].currentDeviceId = real
    /\ connections[real] = t
    /\ connectionStates[real].deviceId = real
    /\ messageHandlers[real] = transports[t].remote
    /\ emitted # <<>> /\ emitted[1].type = "handshakeReceived"

\* C10: a transport reports Connected, and the manager records a Connected
\* ConnectionState for a device, only once the transport's data channel has
\* reported open; the peer connection reaching 'connected' does not do it.
C10_ConnectedOnlyAfterOpen ==
  /\ \A t \in Transports : transports[t].isConnected => transports[t].opened
  /\ \A d \in DeviceIds :
       connectionStates[d].status = "connected" =>
         \E t \in Transports : transports[t].opened /\ transports[t].currentDeviceId = d

C10_Witness ==
  \E t \in Transports :
    /\ transports[t].pc = "connected"
    /\ ~transports[t].opened
    /\ ~transports[t].isConnected
    /\ connectionStates[transports[t].remote].status = "connecting"

\* ======================================================================
\* Claims about sendFile, checked under SpecSend
\* ======================================================================
\* the fileId a receiver reads from a message on the wire
wireFileId(m) == IF m.type = "binary" THEN stripNul(decode(m.header.fileId)) ELSE m.fileId

\* the Metadata, Chunk and End messages of call c, in the order they were sent
TransferOf(c) ==
  LET own(m) == m.type \in {"metadata", "binary", "end"}
  IN SelectSeq(wire[c], own)

\* what call c sent after its first n messages, of the given types
SentAfter(c, n, types) ==
  {i \in (n + 1)..Len(wire[c]) : wire[c][i].type \in types}

\* C5: the messages sendFile puts on the wire for its fileId are Metadata
\* (first, once), then the Chunks, then End (last, once); no Chunk or End goes
\* out before a FileAccept for the fileId has arrived; a call that returned
\* has sent all its chunks, numbered from 0, between Metadata and End.
C5_MetadataAcceptChunksEnd ==
  \A c \in SendCalls :
    LET W == TransferOf(c) IN
    /\ \A i \in 1..Len(wire[c]) : wireFileId(wire[c][i]) = FileIdOf(c)
    /\ W # <<>> => W[1] = Metadata(FileIdOf(c), sends[c].size)
    /\ \A i \in 2..Len(W) : W[i].type # "metadata"
    /\ ~accepted[c] => Len(W) <= 1
    /\ \A i \in 1..Len(W) : W[i].type = "end" => i = Len(W)
    /\ \A i \in 2..Len(W) : W[i].type = "binary" => W[i].header.chunkIndex = i - 2
    /\ sends[c].phase = "done" =>
         /\ Len(W) = chunkCount(sends[c].size) + 2
         /\ W[Len(W)] = FileEnd(FileIdOf(c))

C5_Witness ==
  \E c \in SendCalls :
    /\ sends[c].phase = "done"
    /\ sends[c].size > CHUNK_SIZE
    /\ Len(TransferOf(c)) = 4

\* C6: once a FileReject for the fileId has arrived during the transfer and
\* before End (before or after a FileAccept), sendFile has failed with the
\* rejection and no Chunk of the fileId is sent after that arrival.
C6_RejectStopsTransfer ==
  \A c \in SendCalls :
    rejectMark[c] >= 0 =>
      /\ sends[c].phase = "rejected"
      /\ SentAfter(c, rejectMark[c], {"binary"}) = {}

FedWhole(ses) ==
  /\ ses.fed # <<>>
  /\ ses.fed[1].type = "metadata"
  /\ Len(ses.fed) = ses.fed[1].chunks + 2
  /\ \A i \in 2..(Len(ses.fed) - 1) : ses.fed[i].type = "chunk"
  /\ ses.fed[Len(ses.fed)].type = "end"

\* the payloads of the chunks fed, in arrival order
FedPayloads(ses) == [i \in 1..(Len(ses.fed) - 2) |-> ses.fed[i + 1].data]

\* C8: a session fed Metadata(size = S, chunks = N), the N chunks of the file
\* in order and End resolves with exactly S bytes, the chunk payloads end to
\* end in arrival order (the whole file), whatever the chunkIndex fields say.
C8_ReassemblesInArrivalOrder ==
  \A f \in RecvFiles :
    LET ses == sessions[f] IN
    FedWhole(ses) =>
      /\ ses.status = "resolved"
      /\ ses.file = Blob(FedPayloads(ses))
      /\ blobSize(ses.file) = ses.fed[1].size
      /\ ses.file = IF ses.fed[1].size = 0 THEN <<>>
                    ELSE <<[file |-> f, from |-> 0, to |-> ses.fed[1].size]>>

C8_Witness ==
  \E f \in RecvFiles :
    /\ FedWhole(sessions[f])
    /\ sessions[f].fed[1].chunks >= 2
    /\ sessions[f].status = "resolved"
    /\ blobSize(sessions[f].file) = sessions[f].fed[1].size

\* index of the last Metadata fed (0: none)
LastMetadata(fed) ==
  LET at == {i \in 1..Len(fed) : fed[i].type = "metadata"}
  IN IF at = {} THEN 0 ELSE CHOOSE i \in at : \A j \in at : j <= i

\* the chunks tagged with the session's fileId that arrived once it knew its
\* Metadata, in arrival order
OwnChunks(ses) ==
  LET from == LastMetadata(ses.fed)
      isChunk(m) == m.type = "chunk"
      kept == IF from = 0 /\ ~ses.initial THEN <<>>
              ELSE SelectSeq(SubSeq(ses.fed, from + 1, Len(ses.fed)), isChunk)
  IN [i \in 1..Len(kept) |-> kept[i].data]

\* C9: with the messages of two files interleaved, each session's buffer holds
\* exactly the chunks tagged with its own fileId, in arrival order, and a
\* session is resolved by the End of its own fileId only.
C9_SessionsDoNotMix ==
  \A f \in RecvFiles :
    LET ses == sessions[f] IN
    /\ ses.chunks = OwnChunks(ses)
    /\ \A i \in 1..Len(ses.chunks) : ses.chunks[i].file = f
    /\ ses.status = "resolved" =>
         /\ ses.fed[Len(ses.fed)] = FileEnd(f)
         /\ ses.file = Blob(OwnChunks(ses))

C9_Witness ==
  \E f, g \in RecvFiles :
    /\ f # g
    /\ sessions[f].status = "resolved"
    /\ sessions[g].status = "open"
    /\ Len(sessions[f].chunks) >= 2
    /\ sessions[g].chunks # <<>>
    /\ peer[g].offset < peer[g].size

\* ======================================================================
\* Claims about the Handshake, checked under SpecHandshake
\* ======================================================================
\* the step in which transport t becomes Connected
BecomesConnected(t) ==
  /\ transports[t] # Free
  /\ ~transports[t].isConnected
  /\ transports'[t].isConnected

\* an identity remap has occurred on transport t
Remapped(tr) == tr.currentDeviceId # tr.remote

\* C11: with the local device info set, a transport sends one Handshake in the
\* step in which it becomes Connected; no transport ever sends more than three
\* Handshakes; after an identity remap on a transport no Handshake is sent on it.
C11_HandshakeOnConnected ==
  /\ [](\A t \in Transports : transports[t].handshakes <= 3)
  /\ [][\A t \in Slots :
          /\ localDeviceInfo /\ BecomesConnected(t) =>
               transports'[t].handshakes = transports[t].handshakes + 1
          /\ transports[t] # Free /\ Remapped(transports[t]) /\ transports'[t] # Free =>
               transports'[t].handshakes = transports[t].handshakes
      ]_vars

\* ======================================================================
\* Claims about disconnect, checked under Spec
\* ======================================================================
\* the device is already disconnected: nothing registered, state Disconnected
\* or absent
AlreadyDisconnected(d) ==
  /\ connections[d] = None
  /\ connectionStates[d] # NoState => connectionStates[d].status = "disconnected"

\* C12: a disconnect(d) step closes and unregisters the transport registered
\* under d and leaves d's ConnectionState, if it has one, Disconnected; taken
\* when d is already disconnected it changes no state and publishes no event.
C12_DisconnectIdempotent ==
  [][ \A d \in DeviceIds :
        disconnect(d) =>
          /\ connections[d] # None =>
                /\ transports'[connections[d]].closed
                /\ connections'[d] = None
          /\ connectionStates[d] # NoState => connectionStates'[d].status = "disconnected"
          /\ AlreadyDisconnected(d) =>
                /\ UNCHANGED <<transports, connections, connectionStates, messageHandlers>>
                /\ emitted' = <<>>
    ]_mvars

\* ======================================================================
\* Claims about event listeners, checked under SpecEvents
\* ======================================================================
\* the events among what a step published (handler calls are not events)
EventsOf(evs) == SelectSeq(evs, LAMBDA e : e.type # "handlerCall")

\* C13: for every event a step emits every registered listener is called with
\* it, in registration order, a throwing listener included and whatever the
\* listeners before it did; no call of connectToDevice ends with an exception;
\* an identity remap that emits handshakeReceived still moves the handler and
\* the transport's current id, throwing listener or not.
C13_ListenersIsolated ==
  /\ [](LET evs == EventsOf(emitted)
            n == Len(eventListeners)
        IN /\ Len(invoked) = Len(evs) * n
           /\ \A k \in 1..Len(evs), i \in 1..n :
                invoked[(k - 1) * n + i] = [listener |-> eventListeners[i], event |-> evs[k]]
           /\ \A r \in 1..Len(returned) : returned[r].result \in {"true", "false"})
  /\ [][\A t \in Slots, real \in RealIds :
          LET cur == transports[t].currentDeviceId IN
          startsWithManual(cur) /\ Receive(t, "handshake", real) =>
            /\ transports'[t].currentDeviceId = real
            /\ messageHandlers'[cur] = NoHandler
            /\ messageHandlers[cur] # NoHandler => messageHandlers'[real] = messageHandlers[cur]
      ]_vars

C13_Witness ==
  /\ eventListeners = <<"throws", "listens">>
  /\ Len(invoked) = 2
  /\ invoked[2].listener = "listens"
  /\ invoked[2].event.type = "handshakeReceived"
  /\ \E t \in Transports :
       /\ Remapped(transports[t])
       /\ messageHandlers[transports[t].currentDeviceId] = transports[t].remote

\* ======================================================================
\* Claims about sendMessage, checked under SpecMessages
\* ======================================================================
\* C14: a sendMessage step never ends with an exception: it returns false and
\* leaves registry, transports, states and handlers as they were when no
\* transport is registered under the deviceId, and returns false when the
\* registered transport cannot take the message (a text on a connection that
\* is not ready, anything on a socket that is not open).
C14_SendMessageFailsClosed ==
  [][ \A d \in DeviceIds, type \in MessageTypes, completes \in BOOLEAN :
        sendMessage(d, type, completes) =>
          /\ returned'[1].result \in {"true", "false"}
          /\ UNCHANGED <<connections, connectionStates, transports, messageHandlers>>
          /\ connections[d] = None => returned'[1].result = "false"
          /\ connections[d] # None =>
                LET tr == transports[connections[d]] IN
                /\ tr.kind = WEBRTC /\ type = "text" /\ ~transportReady(tr) =>
                      returned'[1].result = "false"
                /\ tr.kind = WEBSOCKET /\ tr.dc # "open" => returned'[1].result = "false"
    ]_vars

C14_Witness ==
  /\ returned # <<>>
  /\ returned[1].op = "sendMessage"
  /\ returned[1].result = "false"
  /\ connections[returned[1].deviceId] # None
  /\ transports[connections[returned[1].deviceId]].kind = WEBRTC
  /\ transports[connections[returned[1].deviceId]].opened
  /\ ~transportReady(transports[connections[returned[1].deviceId]])

\* ======================================================================
\* Claims about the registry, checked under SpecHandshake
\* ======================================================================
\* transport t is registered under some deviceId
Registered(C, t) == \E d \in DeviceIds : C[d] = t

\* C15: the registry holds at most one transport per deviceId, and a transport
\* that leaves the registry in a step (replaced under its deviceId, or
\* disconnected) is closed by that step: no transport dropped from the
\* registry stays open.
C15_ReplacedTransportClosed ==
  [][ \A t \in Slots :
        Registered(connections, t) /\ ~Registered(connections', t) => transports'[t].closed
    ]_vars

\* ======================================================================
\* Claims about the functions, checked under SpecPure
\* ======================================================================
\* C16: getMessageType returns one of text, file, control, handshake: the type
\* itself for a JSON payload whose type is one of these four, file for a JSON
\* payload whose type is a tag of the chunk protocol, and file for every other
\* payload (unknown or missing type, a string that is not JSON, binary data).
C16_ClassifiesIntoFour ==
  lastCall.fn = "getMessageType" =>
    LET m == lastCall.message
        isJson == m.form = "object" \/ (m.form = "string" /\ m.parses /\ ~m.isNull)
    IN /\ lastCall.result \in MessageKinds
       /\ lastCall.result = IF isJson /\ m.type \in MessageKinds THEN m.type ELSE "file"

\* C17: for a fileId of at most 36 encoded bytes, any chunkIndex and any
\* payload, the encoded frame is 44 header bytes followed by the payload, and
\* decoding it returns that fileId, chunkIndex and payload.
C17_FrameRoundTrip ==
  lastCall.fn = "encode" /\ Len(encode(lastCall.fileId)) <= FILE_ID_BYTES =>
    /\ lastCall.result # RangeError
    /\ lastCall.result.byteLength = HEADER_SIZE + lastCall.payload.to
    /\ lastCall.result.data = lastCall.payload
    /\ lastCall.decoded = [type |-> "chunk", fileId |-> lastCall.fileId,
                           chunkIndex |-> lastCall.chunkIndex,
                           data |-> lastCall.payload]

\* C18: encoding with a fileId of more than 36 encoded bytes fails and produces
\* no frame.
C18_OversizeFileIdRejected ==
  lastCall.fn = "encode" /\ Len(encode(lastCall.fileId)) > FILE_ID_BYTES =>
    lastCall.result = RangeError

\* what the claim calls prune, on the lines of x: line i stays when it is no
\* candidate line, or a host candidate with at most one host candidate before
\* it, or a server-reflexive or relay candidate
isCandidateLine(line) == startsWith(line, "a=candidate:")
candidateType(line) ==
  IF includes(line, "typ host") THEN "host"
  ELSE IF includes(line, "typ srflx") THEN "srflx"
  ELSE IF includes(line, "typ relay") THEN "relay"
  ELSE "other"
hostsUpTo(lines, i) ==
  Cardinality({j \in 1..i : isCandidateLine(lines[j]) /\ candidateType(lines[j]) = "host"})
RECURSIVE keptLines(_, _)
keptLines(lines, i) ==
  IF i > Len(lines) THEN <<>>
  ELSE (IF \/ ~isCandidateLine(lines[i])
           \/ candidateType(lines[i]) \in {"srflx", "relay"}
           \/ candidateType(lines[i]) = "host" /\ hostsUpTo(lines, i) <= 2
        THEN <<lines[i]>> ELSE <<>>) \o keptLines(lines, i + 1)
prune(x) == join(keptLines(split(x), 1))

AttemptWaits == \E t \in Slots : transports[t].resolved = "pending"
ConnectReturns ==
  \E i \in 1..Len(returned) :
    returned[i].op = "connectToDevice" /\ returned[i].result \in {"true", "false"}

\* C20: every connectToDevice call eventually returns true or false: whenever
\* an attempt waits, on success, on failure or at the timeout the wait ends and
\* the call goes on to return.
C20_ConnectReturns == [](AttemptWaits => <>ConnectReturns)

\* ======================================================================
\* Claims about sendFile with a send buffer and timers, checked under SpecFlow
\* ======================================================================
\* sendFile call c is suspended in the accept wait, the backpressure loop or
\* the pacing delay
Suspended(c) == sends[c].phase \in {"waitAccept", "backpressure", "pacing"}

\* sendFile call c has ended with an exception
Failed(c) == sends[c].phase \in {"error", "timeout", "rejected"}

\* C21: once the channel has left the open state (closed, errored, or the
\* transport closed), a sendFile suspended in the accept wait, the
\* backpressure loop or the pacing delay eventually ends in failure.
C21_WaitsEndOnClose ==
  \A c \in SendCalls : [](Suspended(c) /\ sdc # "open" => <>Failed(c))

\* ======================================================================
\* Claims about the identity remap, checked under SpecEvents
\* ======================================================================
\* C22: no event listener observes the registry with the transport, its
\* ConnectionState and its message handler split between the provisional and
\* the real id: a listener called with the handshakeReceived event of a remap
\* finds nothing left under the provisional id.
C22_RemapSeenWhole ==
  \A i \in 1..Len(seen) : \A p \in seen[i].provisional :
    /\ seen[i].connections[p] = None
    /\ seen[i].connectionStates[p] = NoState
    /\ seen[i].messageHandlers[p] = NoHandler

\* ======================================================================
\* Claims about the ConnectionState of a device
\* ======================================================================
\* the step is the start of a new attempt for d, or the state that a manual
\* connection reached under its provisional id is re-keyed to d
StartsAttempt(d) == \E badUrl \in BOOLEAN : connectToDevice(d, badUrl)
ReKeyedTo(d) ==
  \E p \in ProvisionalIds, r \in RealIds :
    /\ d \in {p, r}
    /\ connectionStates[p] # NoState
    /\ connectionStates'[p] = NoState
    /\ connectionStates'[r] = [connectionStates[p] EXCEPT !.deviceId = r]

\* the status changes the claim allows within an attempt
AllowedChange(a, b) ==
  \/ b = "disconnected"
  \/ a = "none" /\ b = "connected"
  \/ a = "connecting" /\ b \in {"connected", "failed"}

\* C23: within one connection attempt the status of a device changes only
\* Connecting -> Connected or Connecting -> Failed (a manual connection has no
\* Connecting and starts at Connected); Disconnected can be entered from any
\* status; every ConnectionState is stored under its own deviceId.
C23_StatusChanges ==
  /\ [](\A d \in DeviceIds :
          connectionStates[d] # NoState => connectionStates[d].deviceId = d)
  /\ [][ \A d \in DeviceIds :
           /\ connectionStates'[d].status # connectionStates[d].status
           /\ ~StartsAttempt(d)
           /\ ~ReKeyedTo(d)
           => AllowedChange(connectionStates[d].status, connectionStates'[d].status)
       ]_vars

\* ======================================================================
\* Claims about the outcome of receiveFile, checked under SpecRecv
\* ======================================================================
Settled(ses) == ses.status \in {"resolved", "timeout"}

\* C24: a receiveFile session resolves exactly once: with the assembled payload
\* when End for its fileId arrives while metadata is known, or with the timeout
\* failure when the 300 s timer fires first; after either outcome its listener
\* is unsubscribed, a timed-out session hands no data to the caller, and a
\* later timer expiry or message for the fileId changes neither the outcome
\* nor what the session holds.
C24_ResolvesOnce ==
  /\ [](\A f \in RecvFiles :
          Settled(sessions[f]) =>
            /\ ~sessions[f].listening
            /\ sessions[f].status = "timeout" => sessions[f].file = <<>>)
  /\ [][ \A f \in RecvFiles :
           LET a == sessions[f]
               b == sessions'[f]
           IN /\ Settled(a) =>
                   b = [a EXCEPT !.timer = IF ReceiveTimeout(f) THEN "fired" ELSE @]
              /\ a.status = "open" /\ b.status = "resolved" =>
                   PeerEnd(f) /\ a.metadata # NoMeta /\ b.file = Blob(a.chunks)
              /\ a.status = "open" /\ b.status = "timeout" => ReceiveTimeout(f)
              /\ a.status = "open" /\ PeerEnd(f) /\ a.metadata # NoMeta =>
                   b.status = "resolved"
              /\ a.status = "open" /\ ReceiveTimeout(f) => b.status = "timeout"
       ]_vars

\* one session resolved before its timer fired, another one timed out with
\* part of its file received before the rest and the End arrived
C24_Witness ==
  \E f, g \in RecvFiles :
    /\ sessions[f].status = "resolved"
    /\ sessions[f].timer = "fired"
    /\ sessions[f].file # <<>>
    /\ sessions[g].status = "timeout"
    /\ sessions[g].chunks # <<>>
    /\ peer[g].phase = "ended"

\* ======================================================================
\* Claims about sendFile and the state of the channel, under SpecFlow
\* ======================================================================
InProgress(c) == sends[c].phase \in {"waitAccept", "chunking", "backpressure", "pacing"}

\* sendFile ended with one of the errors that report the state of the channel
NotReadyError(c) == sends[c].phase \in {"notReady", "error"}

\* the messages a step puts on the wire for call c
NewFrames(c) == SubSeq(wire'[c], Len(wire[c]) + 1, Len(wire'[c]))

\* C25: sendFile called while the data channel is not open fails as not ready
\* and sends nothing; once the channel has stopped being open no Chunk and no
\* End is put on the wire, and every sendFile in progress ends with the error
\* that reports the channel.
C25_FailsWhenNotConnected ==
  /\ [][ \A c \in SendCalls :
           sends[c].phase = "idle" /\ sends'[c].phase # "idle" /\ sdc # "open" =>
             sends'[c].phase = "notReady" /\ wire'[c] = wire[c] ]_vars
  /\ [][ \A c \in SendCalls :
           sdc # "open" =>
             \A i \in 1..Len(NewFrames(c)) : NewFrames(c)[i].type \notin {"binary", "end"} ]_vars
  /\ \A c \in SendCalls : [](InProgress(c) /\ sdc # "open" => <>NotReadyError(c))

\* ======================================================================
\* Claims about the registry and the transports behind it
\* ======================================================================
\* C26: a device whose ConnectionState is Connected (one getActiveConnections
\* returns) has a transport registered under its deviceId, and the channel of
\* that transport is open: the state does not stay Connected once the channel
\* has closed or the peer connection has failed.
C26_ConnectedMeansOpen ==
  \A d \in DeviceIds :
    connectionStates[d].status = "connected" =>
      /\ connections[d] # None
      /\ transports[connections[d]].dc = "open"
      /\ transports[connections[d]].pc # "failed"

\* the transport in slot t is the one the registry holds for the deviceId its
\* message closure dispatches under
IsRegistered(t) == connections[transports[t].currentDeviceId] = t

\* C27: a message is dispatched (to the device's handler, or as a
\* messageReceived or handshakeReceived event) only when it arrived on the
\* transport registered under that deviceId: a message arriving on a transport
\* that was replaced in the registry or removed from it is not dispatched and
\* re-keys or overwrites nothing.
C27_DispatchOnlyFromRegistered ==
  [][ \A t \in Slots, hid \in RealIds :
        Receive(t, "handshake", hid) /\ ~IsRegistered(t) =>
          /\ emitted' = <<>>
          /\ UNCHANGED <<connections, connectionStates, messageHandlers>>
    ]_vars

\* a message arrives on some transport
Receives == \E t \in Slots, raw \in RawTypes, hid \in HandshakeIds : Receive(t, raw, hid)

\* C28: after disconnect(deviceId) during a connectToDevice for the same
\* deviceId, the attempt in flight neither registers its transport nor sets the
\* status to Connected or Failed: until a new connectToDevice or an identity
\* remap, the device has no transport and its status stays Disconnected.
C28_DisconnectCancelsAttempt ==
  [][ \A d \in RealIds :
        /\ connectionStates[d].status = "disconnected"
        /\ connections[d] = None
        /\ ~StartsAttempt(d)
        /\ ~Receives
        => /\ connectionStates'[d].status = "disconnected"
           /\ connections'[d] = None
    ]_vars

\* ======================================================================
\* Claims about the progress sendFile reports, checked under SpecSend
\* ======================================================================
\* the Chunk frames call c has put on the wire, in order
ChunksSent(c) == SelectSeq(wire[c], LAMBDA m : m.type = "binary")

\* the payload bytes in the first n of them
RECURSIVE bytesIn(_, _)
bytesIn(frames, n) ==
  IF n = 0 THEN 0 ELSE bytesIn(frames, n - 1) + byteLength(frames[n].data)

\* C29: the progress callback is called once after every chunk with the
\* number of payload bytes sent so far, which never decreases, never exceeds
\* the file size and equals it after the last chunk; a completed sendFile has
\* sent ceil(size / CHUNK_SIZE) Chunk frames with chunkIndex 0..N-1.
C29_ProgressIsBytesSent ==
  \A c \in SendCalls :
    LET frames == ChunksSent(c) IN
    /\ Len(progress[c]) = Len(frames)
    /\ \A i \in 1..Len(progress[c]) :
         /\ progress[c][i] = bytesIn(frames, i)
         /\ progress[c][i] <= sends[c].size
         /\ i > 1 => progress[c][i - 1] <= progress[c][i]
    /\ \A i \in 1..Len(frames) : frames[i].header.chunkIndex = i - 1
    /\ sends[c].phase = "done" =>
         /\ Len(frames) = chunkCount(sends[c].size)
         /\ Len(frames) > 0 => progress[c][Len(frames)] = sends[c].size

\* ======================================================================
\* Claims about the result of sendMessage, under SpecMessages
\* ======================================================================
\* C30: sendMessage returns true only if the message was handed to the
\* transport registered under the deviceId, for every message type and both
\* kinds of transport.
C30_TrueMeansSent ==
  [][ \A d \in DeviceIds, type \in MessageTypes, completes \in BOOLEAN :
        sendMessage(d, type, completes) /\ returned'[1].result = "true" =>
          /\ connections[d] # None
          /\ handedOver(transports[connections[d]], type, completes)
    ]_vars

====
